---------------------------- MODULE Spec2Model ----------------------------
(***************************************************************************)
(* Model of pyraptor's round-based McRAPTOR engine, its shared-mobility    *)
(* overlay, its bags / Pareto filter and its journey reconstruction.       *)
(*                                                                         *)
(* Times are seconds past midnight.  A label carries the two criteria      *)
(* arrival_time and transfers (a criteria configuration file that lists    *)
(* exactly these two); their raw values are the fields arr and ntr.        *)
(* The uuid of a TransferTrip is abstracted away: a transfer trip is       *)
(* identified by its endpoints, its times and its transport type.          *)
(***************************************************************************)
EXTENDS Integers, Sequences, FiniteSets, TLC

(***************************************************************************)
(* Bounds of the model.                                                    *)
(***************************************************************************)
MaxRounds == 3
MaxRuns == 2
MaxLen == 2
MaxDepth == 8

(***************************************************************************)
(* The timetable: stops, stations, routes with their trips, transfers.     *)
(***************************************************************************)
Stops == 1..8

\* station of every stop: A (stop 1), B (two platforms: stops 2 and 3),
\* C (4), the renting stations R1 (5) and R2 (6), D (7), E (8)
StationOf == <<1, 2, 2, 3, 4, 5, 6, 7>>
Stations == {StationOf[s] : s \in Stops}
StopsOfStation(st) == {s \in Stops : StationOf[s] = st}

\* RentingStation subtype of Stop
RentingStations == {5, 6}
IsRentingStation(s) == s \in RentingStations
SystemId == [s \in RentingStations |-> 1]
TransportTypes == [s \in RentingStations |-> {"Bike", "Car"}]
\* km between two renting stations (geodesic distance)
StopDistance(a, b) == IF a = b THEN 0 ELSE 1
VEHICLE_SPEED == [t \in {"Bike", "Car"} |-> IF t = "Bike" THEN 20 ELSE 50]

TT(kind, r, i, fr, to, dep, arr, ty) ==
    [kind |-> kind, r |-> r, i |-> i, from |-> fr, to |-> to,
     dep |-> dep, arr |-> arr, ttype |-> ty]
\* label.trip is None
NoTrip == TT("none", 0, 0, 0, 0, 0, 0, "none")
\* the i-th trip of route r
Trip(r, i) == TT("trip", r, i, 0, 0, 0, 0, "none")
\* TransferTrip(from_stop, to_stop, dep_time, arr_time, transport_type)
TransferTrip(fr, to, dep, arr, ty) == TT("transfer", 0, 0, fr, to, dep, arr, ty)

\* TripStopTime
ST(a, d) == [dts_arr |-> a, dts_dep |-> d]

\* self.timetable: the RaptorTimetable the algorithm is constructed with,
\* "city" or "loop"
VARIABLE timetable

\* Routes: stop sequence and trips (one stop time per stop of the route)
CityRoutes == <<
    [stops |-> <<1, 2, 4>>,
     trips |-> << <<ST(0, 0), ST(600, 600), ST(1800, 1800)>>,
                  <<ST(1200, 1200), ST(1800, 1800), ST(3000, 3000)>> >>],
    [stops |-> <<3, 4>>,
     trips |-> << <<ST(720, 720), ST(1200, 1200)>>,
                  <<ST(2400, 2400), ST(2880, 2880)>> >>],
    [stops |-> <<1, 3>>,
     trips |-> << <<ST(60, 60), ST(300, 300)>> >>],
    [stops |-> <<7, 3>>,
     trips |-> << <<ST(100, 100), ST(400, 400)>> >>],
    [stops |-> <<4, 8>>,
     trips |-> << <<ST(1100, 1100), ST(1500, 1500)>>,
                  <<ST(2000, 2000), ST(2400, 2400)>> >>]
>>
\* a feeder A -> C -> B1 and a line C -> B1 -> B2 -> B1 that calls at B1 twice
LoopRoutes == <<
    [stops |-> <<1, 4, 2>>,
     trips |-> << <<ST(0, 0), ST(60, 60), ST(1000, 1000)>> >>],
    [stops |-> <<4, 2, 3, 2>>,
     trips |-> << <<ST(100, 100), ST(150, 150), ST(200, 200),
                    ST(1000, 1000)>> >>]
>>
Routes == IF timetable = "loop" THEN LoopRoutes ELSE CityRoutes
RouteIds == 1..Len(Routes)

\* Transfer / VehicleTransfer
Tr(f, t, tm, ty) == [from_stop |-> f, to_stop |-> t, transfer_time |-> tm,
                     transport_type |-> ty]
\* walking transfers, registered in both directions, in insertion order
CityTransfers == <<
    Tr(2, 3, 60, "Walk"), Tr(3, 2, 60, "Walk"),
    Tr(2, 5, 120, "Walk"), Tr(5, 2, 120, "Walk"),
    Tr(4, 6, 120, "Walk"), Tr(6, 4, 120, "Walk"),
    Tr(7, 3, 500, "Walk"), Tr(3, 7, 500, "Walk")
>>
\* min_transfer_time 0 between the two stops of station B
LoopTransfers == <<Tr(2, 3, 0, "Walk"), Tr(3, 2, 0, "Walk")>>
Transfers == IF timetable = "loop" THEN LoopTransfers ELSE CityTransfers

VARIABLES
    cfg,                \* criteria configuration: weights and upper bounds
    perm,               \* iteration order of Python sets of stops
    variant,            \* "mc": McRaptorAlgorithm, "sm": BaseSharedMobRaptor
    enable_sm,          \* BaseSharedMobRaptor.enable_sm
    sm_config,          \* SharedMobilityConfig (preferred_vehicle, enable_car)
    from_stops,         \* run argument: origin stops (list)
    dep_secs,           \* run argument
    rounds,             \* run argument
    pc,                 \* position inside run / the query
    k,                  \* current round
    bag_round_stop,     \* round -> stop -> Bag
    marked_stops,       \* stops marked for the next phase / round (list)
    marked_transfer_stops, \* stops marked by the transfer phase of round k
    actual_rounds,      \* McRaptorAlgorithm.run's second result
    station_status,     \* real-time status of each renting station (feed)
    visited_renting_stations,
    no_source,
    no_dest,
    vehicle_transfers,  \* VehicleTransfers collection of the instance
    v_transfers,        \* attribute assigned by _update_availability_info
    route_marked_stops, \* Q: list of <<route, stop>> pairs
    run_no,             \* number of run() calls started on this instance
    first_result,       \* bag_round_stop returned by the first run
    first_status,       \* station_status used by the first run
    journeys,           \* destination station -> list of journeys
    p_self, p_other, p_out, p_done,  \* Bag.merge applied to arbitrary bags
    stop_times,         \* Trip.stop_times of the trip being built
    trips_set_idx,      \* Trips.set_idx: the trips held, in id order
    last_call,          \* the last call made on the timetable objects, its result
    routes_set_idx,     \* Routes.set_idx: the routes, in id order
    set_stops_idx,      \* Routes.set_stops_idx: tuple of stop ids -> route id
    stop_to_routes      \* Routes.stop_to_routes: stop -> list of route ids

vars == <<timetable, cfg, perm, variant, enable_sm, sm_config, from_stops, dep_secs,
          rounds, pc, k, bag_round_stop, marked_stops, marked_transfer_stops,
          actual_rounds, station_status, visited_renting_stations, no_source,
          no_dest, vehicle_transfers, v_transfers, route_marked_stops, run_no, first_result, first_status,
          journeys, p_self, p_other, p_out, p_done, stop_times,
          trips_set_idx, last_call, routes_set_idx, set_stops_idx,
          stop_to_routes>>

(***************************************************************************)
(* Criteria, labels, Pareto set, bags (structures.py).                     *)
(***************************************************************************)
\* criteria configuration files: weight and max of arrival_time, transfers
Configs == {
    [wa |-> 1, wt |-> 1, uba |-> 3600, ubt |-> 20],
    [wa |-> 1, wt |-> 2, uba |-> 2000, ubt |-> 2]
}

\* A cost is n * LARGE_NUMBER + small / (uba * ubt): `big' counts the
\* criteria that exceed their upper bound, `small' is the weighted scaled
\* sum of the others times uba * ubt (weights are far below LARGE_NUMBER).
Cst(b, s) == [big |-> b, small |-> s]
CostLess(c1, c2) ==
    \/ c1.big < c2.big
    \/ c1.big = c2.big /\ c1.small < c2.small
CostLeq(c1, c2) == CostLess(c1, c2) \/ c1 = c2
CostAdd(c1, c2) == Cst(c1.big + c2.big, c1.small + c2.small)

\* Criterion.cost for the arrival_time / transfers criterion of a label
ArrCost(raw) ==
    IF raw > cfg.uba THEN Cst(1, 0) ELSE Cst(0, cfg.wa * raw * cfg.ubt)
TransfersCost(raw) ==
    IF raw > cfg.ubt THEN Cst(1, 0) ELSE Cst(0, cfg.wt * raw * cfg.uba)

Label(trip, boarding_stop, arr, ntr) ==
    [trip |-> trip, boarding_stop |-> boarding_stop, arr |-> arr, ntr |-> ntr]

\* MultiCriteriaLabel.total_cost
total_cost(l) == CostAdd(ArrCost(l.arr), TransfersCost(l.ntr))

\* one iteration of pareto_set's loop: eff is is_efficient
ParetoStep(labels, eff, i) ==
    IF eff[i]
    THEN LET anyLower == \E j \in 1..Len(labels) :
                            eff[j] /\ CostLess(total_cost(labels[j]),
                                               total_cost(labels[i]))
         IN  [j \in 1..Len(labels) |->
                 IF j = i THEN TRUE ELSE (eff[j] /\ anyLower)]
    ELSE eff

RECURSIVE ParetoLoop(_, _, _)
ParetoLoop(labels, eff, i) ==
    IF i > Len(labels) THEN eff
    ELSE ParetoLoop(labels, ParetoStep(labels, eff, i), i + 1)

RECURSIVE Compress(_, _, _)
Compress(labels, eff, i) ==
    IF i > Len(labels) THEN <<>>
    ELSE (IF eff[i] THEN <<labels[i]>> ELSE <<>>) \o Compress(labels, eff, i + 1)

\* pareto_set without the filtering loop: every label is kept
pareto_set_keep_all(labels) == labels

\* pareto_set(labels, keep_equal=False)
pareto_set(labels) ==
    Compress(labels,
             ParetoLoop(labels, [j \in 1..Len(labels) |-> TRUE], 1), 1)

Bag(labels, updated) == [labels |-> labels, updated |-> updated]
EmptyBag == Bag(<<>>, FALSE)

\* a merge that reports every non-empty result as updated
merge_always_updated(self, other_bag) ==
    LET pareto_labels == self.labels \o other_bag.labels
    IN  IF Len(pareto_labels) = 0 THEN Bag(<<>>, FALSE)
        ELSE Bag(pareto_set(pareto_labels), TRUE)

\* Bag.merge
merge(self, other_bag) ==
    LET pareto_labels == self.labels \o other_bag.labels
    IN  IF Len(pareto_labels) = 0 THEN Bag(<<>>, FALSE)
        ELSE LET ps == pareto_set(pareto_labels)
             IN  Bag(ps, ps # self.labels)

\* componentwise Pareto dominance on the raw criteria values
Dominates(a, b) ==
    /\ a.arr <= b.arr /\ a.ntr <= b.ntr
    /\ (a.arr < b.arr \/ a.ntr < b.ntr)

(***************************************************************************)
(* Iteration order of Python sets of stops: fixed for one process (it      *)
(* follows the hashes of the stop ids), modelled by perm.                  *)
(***************************************************************************)
RECURSIVE AscSeq(_)
AscSeq(S) ==
    IF S = {} THEN <<>>
    ELSE LET m == CHOOSE x \in S : \A y \in S : x <= y
         IN  <<m>> \o AscSeq(S \ {m})

Reverse(sq) == [i \in 1..Len(sq) |-> sq[Len(sq) + 1 - i]]
Range(sq) == {sq[i] : i \in 1..Len(sq)}

\* list(set(...)) of stops
OrderSet(S) == IF perm = "asc" THEN AscSeq(S) ELSE Reverse(AscSeq(S))

(***************************************************************************)
(* Timetable queries (structures.py).                                      *)
(***************************************************************************)
\* Route.stop_order / Trip.stop_times_index: a dict filled in stop order,
\* so a stop maps to its last position
stop_order(stops, stop) ==
    CHOOSE i \in 1..Len(stops) :
        stops[i] = stop /\ \A j \in (i + 1)..Len(stops) : stops[j] # stop

\* Route.stop_index
stop_index(r, stop) == stop_order(Routes[r].stops, stop)

\* Routes.get_routes_of_stop: routes in creation order
get_routes_of_stop(stop) ==
    AscSeq({r \in RouteIds : stop \in Range(Routes[r].stops)})

\* Trip.get_stop_time of a timetable trip
get_stop_time(trip, stop) ==
    Routes[trip.r].trips[trip.i][stop_index(trip.r, stop)]

\* an earliest_trip that only takes trips leaving after dts_arr
earliest_trip_after(stops, trips, dts_arr, stop) ==
    LET idx == stop_order(stops, stop)
        cand == {i \in 1..Len(trips) : trips[i][idx].dts_dep > dts_arr}
    IN  IF cand = {} THEN 0
        ELSE CHOOSE i \in cand : \A j \in cand :
                 \/ trips[i][idx].dts_dep < trips[j][idx].dts_dep
                 \/ /\ trips[i][idx].dts_dep = trips[j][idx].dts_dep
                    /\ i <= j

\* Route.earliest_trip of a route with these stops and trips: the position
\* in route.trips of the first trip, in a stable sort by dts_dep, among
\* those leaving stop at or after dts_arr; 0 (None) when there is none
earliest_trip_of(stops, trips, dts_arr, stop) ==
    LET idx == stop_order(stops, stop)
        cand == {i \in 1..Len(trips) : trips[i][idx].dts_dep >= dts_arr}
    IN  IF cand = {} THEN 0
        ELSE CHOOSE i \in cand : \A j \in cand :
                 \/ trips[i][idx].dts_dep < trips[j][idx].dts_dep
                 \/ /\ trips[i][idx].dts_dep = trips[j][idx].dts_dep
                    /\ i <= j

\* Route.earliest_trip of a timetable route; NoTrip when there is none
earliest_trip(r, dts_arr, stop) ==
    LET i == earliest_trip_of(Routes[r].stops, Routes[r].trips, dts_arr, stop)
    IN  IF i = 0 THEN NoTrip ELSE Trip(r, i)

(***************************************************************************)
(* Label updates.                                                          *)
(***************************************************************************)
\* new_trip != old_trip: a TransferTrip is always fresh (uuid id)
TripDiffers(old_trip, new_trip) ==
    new_trip.kind = "transfer" \/ old_trip # new_trip

TransfersNumberCountAll(raw, old_trip, new_trip) ==
    IF TripDiffers(old_trip, new_trip) THEN raw + 1 ELSE raw

\* TransfersNumberCriterion.update: the new raw_value
TransfersNumberUpdate(raw, old_trip, new_trip) ==
    LET add_new_leg ==
            /\ TripDiffers(old_trip, new_trip)
            /\ ~(new_trip.kind = "transfer"
                 /\ StationOf[new_trip.from] = StationOf[new_trip.to])
    IN  IF add_new_leg THEN raw + 1 ELSE raw

\* traverse_route step 1: the label rides its trip to current_stop
UpdateArrival(label, current_stop) ==
    [label EXCEPT !.arr = get_stop_time(label.trip, current_stop).dts_arr,
                  !.ntr = TransfersNumberUpdate(label.ntr, label.trip, label.trip)]

\* traverse_route step 3: label.update_trip(earliest_trip, current_stop)
update_trip(label, new_trip, current_stop) ==
    IF TripDiffers(label.trip, new_trip)
    THEN [label EXCEPT !.trip = new_trip,
                       !.boarding_stop = current_stop,
                       !.ntr = TransfersNumberUpdate(label.ntr, label.trip, new_trip)]
    ELSE label

\* add_transfer_time: the label of current_stop walks / rides the transfer
TransferLabel(label, t) ==
    LET transfer_arrival_time == label.arr + t.transfer_time
        transfer_trip == TransferTrip(t.from_stop, t.to_stop,
                                      transfer_arrival_time,
                                      transfer_arrival_time, t.transport_type)
    IN  Label(transfer_trip, t.from_stop, transfer_arrival_time,
              TransfersNumberUpdate(label.ntr, label.trip, transfer_trip))

\* the initial label of an origin stop
InitialLabel(from_stop, dep) == Label(NoTrip, from_stop, dep, 0)

(***************************************************************************)
(* Round engine (mcraptor.py, algos/base.py).                              *)
(***************************************************************************)
\* position of route r in Q (a list of <<route, stop>> pairs), 0 if absent
QIndex(Q, r) ==
    IF \E i \in 1..Len(Q) : Q[i][1] = r
    THEN CHOOSE i \in 1..Len(Q) : Q[i][1] = r
    ELSE 0

\* a comparison that keeps the stop first seen for a route
first_stop_kept(route, current_stop_for_route, marked_stop) == FALSE

\* route.stop_index(current_stop_for_route) > route.stop_index(marked_stop)
is_before_current(route, current_stop_for_route, marked_stop) ==
    stop_index(route, current_stop_for_route) > stop_index(route, marked_stop)

\* accumulate_routes: the inner loop over the routes serving marked_stop
RECURSIVE AccRoutes(_, _, _, _)
AccRoutes(Q, marked_stop, rs, j) ==
    IF j > Len(rs) THEN Q
    ELSE LET route == rs[j]
             qi == QIndex(Q, route)
             Q2 == IF qi = 0 THEN Append(Q, <<route, marked_stop>>)
                   ELSE IF is_before_current(route, Q[qi][2], marked_stop)
                        THEN [Q EXCEPT ![qi] = <<route, marked_stop>>]
                        ELSE Q
         IN  AccRoutes(Q2, marked_stop, rs, j + 1)

RECURSIVE AccStops(_, _, _)
AccStops(Q, marked, i) ==
    IF i > Len(marked) THEN Q
    ELSE AccStops(AccRoutes(Q, marked[i], get_routes_of_stop(marked[i]), 1),
                  marked, i + 1)

\* accumulate_routes / _accumulate_routes
accumulate_routes(marked) == AccStops(<<>>, marked, 1)

\* map f over a list of labels
RECURSIVE RideAll(_, _, _)
RideAll(labels, current_stop, i) ==
    IF i > Len(labels) THEN <<>>
    ELSE <<UpdateArrival(labels[i], current_stop)>>
         \o RideAll(labels, current_stop, i + 1)

\* traverse_route step 3: board the earliest trip, drop labels without one
RECURSIVE BoardAll(_, _, _, _)
BoardAll(labels, r, current_stop, i) ==
    IF i > Len(labels) THEN <<>>
    ELSE LET et == earliest_trip(r, labels[i].arr, current_stop)
         IN  (IF et # NoTrip
              THEN <<update_trip(labels[i], et, current_stop)>>
              ELSE <<>>)
             \o BoardAll(labels, r, current_stop, i + 1)

\* the merge of round k written into the bags of round k - 1
MergeIntoPreviousRound(brs, kk, stop, bag) ==
    IF kk >= 1
    THEN [brs EXCEPT ![kk - 1][stop] = merge(brs[kk][stop], bag)]
    ELSE [brs EXCEPT ![kk][stop] = merge(brs[kk][stop], bag)]

\* bag_round_stop[k][stop] = bag_round_stop[k][stop].merge(bag)
MergeIntoRound(brs, kk, stop, bag) ==
    [brs EXCEPT ![kk][stop] = merge(brs[kk][stop], bag)]

\* traverse_route: the loop over the remaining stops of one marked route.
\* acc = [brs, marked]: the bags and new_marked_stops
RECURSIVE TraverseStops(_, _, _, _, _)
TraverseStops(acc, kk, r, idx, route_bag) ==
    IF idx > Len(Routes[r].stops) THEN acc
    ELSE LET current_stop == Routes[r].stops[idx]
             \* step 1
             rb1 == Bag(RideAll(route_bag.labels, current_stop, 1), FALSE)
             \* step 2
             brs2 == MergeIntoRound(acc.brs, kk, current_stop, rb1)
             mk2 == IF brs2[kk][current_stop].updated
                    THEN acc.marked \cup {current_stop} ELSE acc.marked
             \* step 3
             rb3 == merge(rb1, brs2[kk - 1][current_stop])
             rb4 == Bag(BoardAll(rb3.labels, r, current_stop, 1), FALSE)
         IN  TraverseStops([brs |-> brs2, marked |-> mk2], kk, r, idx + 1, rb4)

RECURSIVE TraverseRoutes(_, _, _, _)
TraverseRoutes(acc, kk, rms, i) ==
    IF i > Len(rms) THEN acc
    ELSE TraverseRoutes(
            TraverseStops(acc, kk, rms[i][1],
                          stop_index(rms[i][1], rms[i][2]), EmptyBag),
            kk, rms, i + 1)

\* traverse_route / _traverse_routes: result [brs, marked (a set)]
traverse_route(brs, kk, rms) ==
    TraverseRoutes([brs |-> brs, marked |-> {}], kk, rms, 1)

\* temp_bag: every label of B_k(current_stop) extended over transfer t
RECURSIVE TempLabels(_, _, _)
TempLabels(labels, t, i) ==
    IF i > Len(labels) THEN <<>>
    ELSE <<TransferLabel(labels[i], t)>> \o TempLabels(labels, t, i + 1)

\* sub-list of the transfers leaving current_stop
RECURSIVE TransfersFrom(_, _, _)
TransfersFrom(transfers, current_stop, i) ==
    IF i > Len(transfers) THEN <<>>
    ELSE (IF transfers[i].from_stop = current_stop
          THEN <<transfers[i]>> ELSE <<>>)
         \o TransfersFrom(transfers, current_stop, i + 1)

RECURSIVE RelaxTransfers(_, _, _, _)
RelaxTransfers(acc, kk, ts, j) ==
    IF j > Len(ts) THEN acc
    ELSE LET t == ts[j]
             temp_bag == Bag(TempLabels(acc.brs[kk][t.from_stop].labels, t, 1),
                             FALSE)
             brs2 == MergeIntoRound(acc.brs, kk, t.to_stop, temp_bag)
             mk2 == IF brs2[kk][t.to_stop].updated
                    THEN acc.marked \cup {t.to_stop} ELSE acc.marked
         IN  RelaxTransfers([brs |-> brs2, marked |-> mk2], kk, ts, j + 1)

RECURSIVE RelaxStops(_, _, _, _, _)
RelaxStops(acc, kk, marked, transfers, i) ==
    IF i > Len(marked) THEN acc
    ELSE RelaxStops(
            RelaxTransfers(acc, kk, TransfersFrom(transfers, marked[i], 1), 1),
            kk, marked, transfers, i + 1)

\* add_transfer_time / _improve_with_transfers: result [brs, marked (a set)]
add_transfer_time(brs, kk, marked, transfers) ==
    RelaxStops([brs |-> brs, marked |-> {}], kk, marked, transfers, 1)

(***************************************************************************)
(* Shared-mobility overlay (shared_mobility.py, algos/base.py).            *)
(***************************************************************************)
Status(cap, veh, docks, inst, rent, ret) ==
    [capacity |-> cap, vehicles_available |-> veh, docks_available |-> docks,
     is_installed |-> inst, is_renting |-> rent, is_returning |-> ret]

\* what the station_status feed can answer
StatusOptions == {
    [s \in RentingStations |-> Status(2, 1, 1, TRUE, TRUE, TRUE)],
    [s \in RentingStations |->
        IF s = 5 THEN Status(2, 0, 2, TRUE, TRUE, TRUE)
        ELSE Status(2, 1, 1, TRUE, TRUE, TRUE)],
    [s \in RentingStations |->
        IF s = 6 THEN Status(2, 2, 0, TRUE, TRUE, TRUE)
        ELSE Status(2, 1, 1, TRUE, TRUE, TRUE)]
}
InitialStatus == [s \in RentingStations |-> Status(2, 1, 1, TRUE, TRUE, TRUE)]

\* PhysicalRentingStation.valid_source / valid_destination
valid_source(st) ==
    st.vehicles_available > 0 /\ st.is_installed /\ st.is_renting
valid_destination(st) ==
    st.vehicles_available < st.capacity /\ st.docks_available > 0 /\ st.is_returning

\* RentingStations.no_source / no_destination, flattened over the feeds
NoSourceOf(status) == {s \in RentingStations : ~valid_source(status[s])}
NoDestOf(status) == {s \in RentingStations : ~valid_destination(status[s])}

SmConfigs == {
    [preferred_vehicle |-> "Bike", enable_car |-> FALSE],
    [preferred_vehicle |-> "Car", enable_car |-> TRUE]
}

\* VehicleTransfer.get_vehicle_transfer: transfer time of sa -> sb
VehicleTransferTime(sa, sb, ty) ==
    (StopDistance(sa, sb) * 3600) \div VEHICLE_SPEED[ty]

\* 5. validate the transfer against real-time availability
TransferAvailable(stop_a, stop_b, nsrc, ndst) ==
    stop_a \notin nsrc /\ stop_b \notin ndst

\* the transport types VEHICLE_SPEED has an entry for
HasSpeed(t) == t \in DOMAIN VEHICLE_SPEED

\* 2.1-2.2: common transport types, Car removed if disabled
common_types(types_a, types_b, config) ==
    IF ~config.enable_car THEN (types_a \cap types_b) \ {"Car"}
    ELSE types_a \cap types_b

fastest_t_type(common_t_types, config) ==
    IF \E t \in common_t_types : ~HasSpeed(t) THEN "KeyError"
    ELSE CHOOSE t \in common_t_types :
            \A u \in common_t_types : VEHICLE_SPEED[u] <= VEHICLE_SPEED[t]

\* 3.1-3.2: the preferred vehicle if present, else the fastest one;
\* VEHICLE_SPEED[t_type] raises KeyError for a type without an entry
best_t_type(common_t_types, config) ==
    IF config.preferred_vehicle \in common_t_types
    THEN config.preferred_vehicle
    ELSE IF \E t \in common_t_types : ~HasSpeed(t) THEN "KeyError"
    ELSE CHOOSE t \in common_t_types :
            \A u \in common_t_types : VEHICLE_SPEED[u] <= VEHICLE_SPEED[t]

\* _add_vehicle_transfer on stations with the given system ids and
\* transport types: the resulting vehicle_transfers and whether it raised
add_vehicle_transfer_of(vts, stop_a, stop_b, sys_a, sys_b, types_a, types_b, config, nsrc, ndst) ==
    IF sys_a = sys_b
    THEN LET common_t_types == common_types(types_a, types_b, config)
         IN  IF common_t_types # {}
             THEN LET best == best_t_type(common_t_types, config)
                  IN  IF best = "KeyError" \/ ~HasSpeed(best)
                      THEN [vts |-> vts, raised |-> TRUE]
                      ELSE LET t_ab == Tr(stop_a, stop_b,
                                          VehicleTransferTime(stop_a, stop_b,
                                                              best),
                                          best)
                           IN  IF TransferAvailable(stop_a, stop_b, nsrc, ndst)
                               THEN [vts |-> Append(vts, t_ab),
                                     raised |-> FALSE]
                               ELSE [vts |-> vts, raised |-> FALSE]
             ELSE [vts |-> vts, raised |-> FALSE]
    ELSE [vts |-> vts, raised |-> FALSE]

\* _add_vehicle_transfer: vts is self.vehicle_transfers
add_vehicle_transfer(vts, stop_a, stop_b, nsrc, ndst) ==
    add_vehicle_transfer_of(vts, stop_a, stop_b,
                            SystemId[stop_a], SystemId[stop_b],
                            TransportTypes[stop_a], TransportTypes[stop_b],
                            sm_config, nsrc, ndst).vts

RECURSIVE AddForNew(_, _, _, _, _, _)
AddForNew(vts, old, news, nsrc, ndst, j) ==
    IF j > Len(news) THEN vts
    ELSE AddForNew(add_vehicle_transfer(vts, old, news[j], nsrc, ndst),
                   old, news, nsrc, ndst, j + 1)

RECURSIVE AddForOld(_, _, _, _, _, _)
AddForOld(vts, olds, news, nsrc, ndst, i) ==
    IF i > Len(olds) THEN vts
    ELSE AddForOld(AddForNew(vts, olds[i], news, nsrc, ndst, 1),
                   olds, news, nsrc, ndst, i + 1)

\* filter_shared_mobility, keeping the order of the list
RECURSIVE filter_shared_mobility(_, _)
filter_shared_mobility(stops, i) ==
    IF i > Len(stops) THEN <<>>
    ELSE (IF IsRentingStation(stops[i]) THEN <<stops[i]>> ELSE <<>>)
         \o filter_shared_mobility(stops, i + 1)

\* VehicleTransfers.with_to_stop for every station of news, in order
RECURSIVE TransfersTo(_, _, _)
TransfersTo(vts, to, i) ==
    IF i > Len(vts) THEN <<>>
    ELSE (IF vts[i].to_stop = to THEN <<vts[i]>> ELSE <<>>)
         \o TransfersTo(vts, to, i + 1)

RECURSIVE TransfersToAll(_, _, _)
TransfersToAll(vts, news, j) ==
    IF j > Len(news) THEN <<>>
    ELSE TransfersTo(vts, news[j], 1) \o TransfersToAll(vts, news, j + 1)

\* _update_visited_renting_stations
RECURSIVE update_visited(_, _, _)
update_visited(visited, stops, i) ==
    IF i > Len(stops) THEN visited
    ELSE update_visited(
            IF IsRentingStation(stops[i]) /\ stops[i] \notin Range(visited)
            THEN Append(visited, stops[i]) ELSE visited,
            stops, i + 1)

\* _improve_with_shared_mob: result [brs, marked, visited, vts]
improve_with_shared_mob(brs, kk, marked, visited, vts, nsrc, ndst) ==
    LET marked_renting_stations == filter_shared_mobility(marked, 1)
        new_renting_stations ==
            OrderSet(Range(marked_renting_stations) \ Range(visited))
        visited2 == OrderSet(Range(visited) \cup Range(new_renting_stations))
        vts2 == AddForOld(vts, visited2, new_renting_stations,
                          nsrc, ndst, 1)
        t_to_new_renting_stations == TransfersToAll(vts2, new_renting_stations, 1)
        dep_to_new_renting_stations ==
            OrderSet({t_to_new_renting_stations[i].from_stop :
                        i \in 1..Len(t_to_new_renting_stations)})
        r1 == add_transfer_time(brs, kk, dep_to_new_renting_stations,
                                t_to_new_renting_stations)
        improved_new_renting_stations == OrderSet(r1.marked)
        r2 == add_transfer_time(r1.brs, kk, improved_new_renting_stations,
                                Transfers)
    IN  [brs |-> r2.brs, marked |-> r2.marked, visited |-> visited2,
         vts |-> vts2]

(***************************************************************************)
(* Journey reconstruction (mcraptor.py, structures.py).                    *)
(***************************************************************************)
Leg(from_stop, to_stop, trip, arr, ntr) ==
    [from_stop |-> from_stop, to_stop |-> to_stop, trip |-> trip,
     arr |-> arr, ntr |-> ntr]

\* Leg.dep / Leg.arr: the times of the leg's trip at its two stops
LegDep(leg) ==
    IF leg.trip.kind = "transfer" THEN leg.trip.dep
    ELSE get_stop_time(leg.trip, leg.from_stop).dts_dep
LegArr(leg) ==
    IF leg.trip.kind = "transfer" THEN leg.trip.arr
    ELSE get_stop_time(leg.trip, leg.to_stop).dts_arr

\* Leg.is_compatible_before: criteria compared by their cost
is_compatible_before(self, other_leg) ==
    /\ CostLeq(ArrCost(self.arr), ArrCost(other_leg.arr))
    /\ CostLeq(TransfersCost(self.ntr), TransfersCost(other_leg.ntr))

\* Journey.remove_empty_and_same_station_legs
RECURSIVE remove_empty_and_same_station_legs(_, _)
remove_empty_and_same_station_legs(legs, i) ==
    IF i > Len(legs) THEN <<>>
    ELSE (IF legs[i].trip # NoTrip
             /\ StationOf[legs[i].from_stop] # StationOf[legs[i].to_stop]
          THEN <<legs[i]>> ELSE <<>>)
         \o remove_empty_and_same_station_legs(legs, i + 1)

\* Journey.is_valid without the comparison of the legs' times
is_valid_unchecked(legs) == Len(legs) >= 0

\* Journey.is_valid
is_valid(legs) ==
    \A i \in 1..(Len(legs) - 1) : ~(LegArr(legs[i]) > LegDep(legs[i + 1]))

\* best_legs_to_destination_station
RECURSIVE StopLabels(_, _, _)
StopLabels(to_stops, bags, i) ==
    IF i > Len(to_stops) THEN <<>>
    ELSE [j \in 1..Len(bags[to_stops[i]].labels) |->
             <<to_stops[i], bags[to_stops[i]].labels[j]>>]
         \o StopLabels(to_stops, bags, i + 1)

RECURSIVE LegsOf(_, _, _)
LegsOf(best_labels, pareto_optimal_labels, i) ==
    IF i > Len(best_labels) THEN <<>>
    ELSE (IF best_labels[i][2] \in Range(pareto_optimal_labels)
          THEN <<Leg(best_labels[i][2].boarding_stop, best_labels[i][1],
                     best_labels[i][2].trip, best_labels[i][2].arr,
                     best_labels[i][2].ntr)>>
          ELSE <<>>)
         \o LegsOf(best_labels, pareto_optimal_labels, i + 1)

best_legs_to_destination_station(to_stops, last_round_bag) ==
    LET best_labels == StopLabels(to_stops, last_round_bag, 1)
        pareto_optimal_labels ==
            pareto_set([i \in 1..Len(best_labels) |-> best_labels[i][2]])
    IN  LegsOf(best_labels, pareto_optimal_labels, 1)

\* the journey is finished: it is filtered, validated and yielded
FinishJourney(legs) ==
    LET jrny == remove_empty_and_same_station_legs(legs, 1)
    IN  IF is_valid(jrny) THEN <<jrny>> ELSE <<>>

\* Journey.prepend_leg: legs = self.legs; legs.insert(0, leg); the list of
\* the journey it is called on (self) and the list of the journey returned
\* (jrny) are one and the same list
prepend_leg(legs, leg) ==
    [self |-> <<leg>> \o legs, jrny |-> <<leg>> \o legs]

\* reconstruct_journeys.loop for one journey.  Journey.prepend_leg inserts
\* into the list of the journey it is called on, so the list is threaded
\* through the iteration: the result is [out, legs, cut], the journeys
\* yielded, the list as the calls left it, and whether the recursion was
\* cut off at MaxDepth.
RECURSIVE LoopJourney(_, _, _, _)
RECURSIVE LoopLabels(_, _, _, _, _, _, _)
LoopLabels(st, current_leg, labels, i, origins, bags, depth) ==
    IF i > Len(labels) THEN st
    ELSE LET new_label == labels[i]
             new_leg == Leg(new_label.boarding_stop, current_leg.from_stop,
                            new_label.trip, new_label.arr, new_label.ntr)
         IN  IF is_compatible_before(new_leg, current_leg)
             THEN LET new_jrny == prepend_leg(st.legs, new_leg).jrny
                      res == LoopJourney(new_jrny, origins, bags, depth + 1)
                  IN  LoopLabels([out |-> st.out \o res.out, legs |-> res.legs,
                                  cut |-> st.cut \/ res.cut],
                                 current_leg, labels, i + 1, origins, bags, depth)
             ELSE LoopLabels(st, current_leg, labels, i + 1, origins, bags, depth)

LoopJourney(legs, origins, bags, depth) ==
    LET current_leg == legs[1]
    IN  IF current_leg.trip = NoTrip \/ current_leg.from_stop \in Range(origins)
        THEN [out |-> FinishJourney(legs), legs |-> legs, cut |-> FALSE]
        ELSE IF depth >= MaxDepth
        THEN [out |-> <<>>, legs |-> legs, cut |-> TRUE]
        ELSE LoopLabels([out |-> <<>>, legs |-> legs, cut |-> FALSE],
                        current_leg, bags[current_leg.from_stop].labels, 1,
                        origins, bags, depth)

RECURSIVE LoopAll(_, _, _, _)
LoopAll(destination_legs, origins, bags, i) ==
    IF i > Len(destination_legs) THEN [out |-> <<>>, cut |-> FALSE]
    ELSE LET res == LoopJourney(<<destination_legs[i]>>, origins, bags, 0)
             rest == LoopAll(destination_legs, origins, bags, i + 1)
         IN  [out |-> res.out \o rest.out, cut |-> res.cut \/ rest.cut]

\* reconstruct_journeys(from_stops, destination_legs, bag_round_stop, k)
reconstruct_journeys(origins, destination_legs, brs, kk) ==
    LoopAll(destination_legs, origins, brs[kk], 1)

(***************************************************************************)
(* The run as a state machine: one action per call made by run().          *)
(***************************************************************************)
OriginStations == {1, 2, 4, 6}
DepTimes == {0, 700}

NoJourneys == [st \in {} |-> <<>>]

\* no call made yet
NoCall == [op |-> "none"]
\* Trip(), Trips(), Routes(): nothing built
BuildIdle ==
    /\ stop_times = <<>>
    /\ trips_set_idx = <<>>
    /\ last_call = NoCall
    /\ routes_set_idx = <<>>
    /\ set_stops_idx = <<>>
    /\ stop_to_routes = <<>>

Init ==
    /\ timetable = "city"
    /\ cfg \in Configs
    /\ perm \in {"asc", "desc"}
    /\ variant \in {"mc", "sm"}
    /\ enable_sm \in (IF variant = "sm" THEN BOOLEAN ELSE {FALSE})
    /\ sm_config \in (IF enable_sm THEN SmConfigs
                      ELSE {[preferred_vehicle |-> "Bike", enable_car |-> FALSE]})
    /\ \E st \in OriginStations : from_stops = AscSeq(StopsOfStation(st))
    /\ dep_secs \in DepTimes
    /\ rounds \in 0..MaxRounds
    /\ pc = "idle"
    /\ k = 0
    /\ bag_round_stop = <<>>
    /\ marked_stops = <<>>
    /\ marked_transfer_stops = <<>>
    /\ route_marked_stops = <<>>
    /\ actual_rounds = 0
    /\ station_status = InitialStatus
    /\ visited_renting_stations = <<>>
    /\ no_source = {}
    /\ no_dest = {}
    /\ vehicle_transfers = <<>>
    /\ v_transfers = <<>>
    /\ run_no = 0
    /\ first_result = <<>>
    /\ first_status = InitialStatus
    /\ journeys = NoJourneys
    /\ p_self = EmptyBag /\ p_other = EmptyBag /\ p_out = EmptyBag
    /\ p_done = FALSE
    /\ BuildIdle

Inputs == <<timetable, cfg, perm, variant, enable_sm, sm_config, from_stops, dep_secs, rounds>>
Build == <<stop_times, trips_set_idx, last_call, routes_set_idx,
           set_stops_idx, stop_to_routes>>
Pure == <<p_self, p_other, p_out, p_done, Build>>
SmState == <<station_status, visited_renting_stations, no_source, no_dest,
             vehicle_transfers, v_transfers, first_status>>

\* an initialization that labels every stop with the departure time
InitialBagsEverywhere(stops, dep, rnds) ==
    [kk \in 0..rnds |->
        [p \in Stops |->
            IF kk = 0 THEN Bag(<<InitialLabel(p, dep)>>, FALSE) ELSE EmptyBag]]

\* the bags built by the initialization: empty everywhere, one label with
\* the departure time at every origin stop
InitialBags(stops, dep, rnds) ==
    [kk \in 0..rnds |->
        [p \in Stops |->
            IF kk = 0 /\ p \in Range(stops)
            THEN Bag(<<InitialLabel(p, dep)>>, FALSE)
            ELSE EmptyBag]]

SharedMobAlways == TRUE

\* BaseSharedMobRaptor.run: the test `if self.enable_sm:`
SharedMobEnabled == enable_sm

\* McRaptorAlgorithm.run, lines 34-59 / _initialization
Initialization ==
    /\ pc \in {"idle", "reconstructed"}
    /\ run_no < MaxRuns
    /\ run_no' = run_no + 1
    /\ bag_round_stop' = InitialBags(from_stops, dep_secs, rounds)
    /\ marked_stops' = from_stops
    /\ marked_transfer_stops' = <<>>
    /\ route_marked_stops' = <<>>
    /\ actual_rounds' = 0
    /\ journeys' = NoJourneys
    /\ k' = IF variant = "mc" THEN 1 ELSE 0
    /\ pc' = IF variant = "mc" THEN "round_start"
             ELSE IF SharedMobEnabled THEN "init_sm" ELSE "immediate"
    /\ UNCHANGED <<Inputs, Pure, SmState, first_result>>

\* _update_availability_info: the attribute that is reset
ResetTransfers(vts, vt) == [vehicle_transfers |-> vts, v_transfers |-> <<>>]

\* _initialize_shared_mob = _update_availability_info +
\* _update_visited_renting_stations(origin_stops)
InitializeSharedMob ==
    /\ pc = "init_sm"
    /\ \E status \in StatusOptions :
          /\ station_status' = status
          /\ no_source' = NoSourceOf(status)
          /\ no_dest' = NoDestOf(status)
          /\ first_status' = IF run_no = 1 THEN status ELSE first_status
    /\ LET rt == ResetTransfers(vehicle_transfers, v_transfers)
       IN  /\ vehicle_transfers' = rt.vehicle_transfers
           /\ v_transfers' = rt.v_transfers
    /\ visited_renting_stations' =
          update_visited(visited_renting_stations, marked_stops, 1)
    /\ pc' = "immediate"
    /\ UNCHANGED <<Inputs, Pure, k, bag_round_stop, marked_stops,
                   marked_transfer_stops, route_marked_stops, actual_rounds,
                   run_no, first_result, journeys>>

\* run: immediate transfers from the origin stops (k = 0)
ImmediateTransfers ==
    /\ pc = "immediate"
    /\ LET res == add_transfer_time(bag_round_stop, 0, marked_stops, Transfers)
           immediately_reachable_stops == OrderSet(res.marked)
       IN  /\ bag_round_stop' = res.brs
           /\ visited_renting_stations' =
                 IF SharedMobEnabled
                 THEN update_visited(visited_renting_stations,
                                     immediately_reachable_stops, 1)
                 ELSE visited_renting_stations
           /\ marked_stops' = OrderSet(Range(marked_stops) \cup res.marked)
    /\ k' = 1
    /\ pc' = "round_start"
    /\ UNCHANGED <<Inputs, Pure, marked_transfer_stops, route_marked_stops,
                   actual_rounds, station_status, no_source, no_dest,
                   vehicle_transfers, v_transfers, first_status, run_no,
                   first_result, journeys>>

\* bag_round_stop[k] = copy(bag_round_stop[k - 1])
CopyRound(brs, kk) == [brs EXCEPT ![kk] = brs[kk - 1]]

\* start of the loop body: copy the bags; McRaptorAlgorithm breaks out of
\* the loop when no stop is marked
BeginRound ==
    /\ pc = "round_start"
    /\ k <= rounds
    /\ bag_round_stop' = CopyRound(bag_round_stop, k)
    /\ IF variant = "mc" /\ Len(marked_stops) = 0
       THEN /\ k' = rounds + 1
            /\ pc' = "round_start"
            /\ UNCHANGED actual_rounds
       ELSE /\ actual_rounds' = IF variant = "mc" THEN k ELSE actual_rounds
            /\ pc' = "accumulate"
            /\ UNCHANGED k
    /\ UNCHANGED <<Inputs, Pure, SmState, marked_stops, marked_transfer_stops,
                   route_marked_stops, run_no, first_result, journeys>>

AccumulateRoutes ==
    /\ pc = "accumulate"
    /\ route_marked_stops' = accumulate_routes(marked_stops)
    /\ pc' = "traverse"
    /\ UNCHANGED <<Inputs, Pure, SmState, k, bag_round_stop, marked_stops,
                   marked_transfer_stops, actual_rounds, run_no, first_result,
                   journeys>>

TraverseRoute ==
    /\ pc = "traverse"
    /\ LET res == traverse_route(bag_round_stop, k, route_marked_stops)
       IN  /\ bag_round_stop' = res.brs
           /\ marked_stops' = OrderSet(res.marked)
    /\ pc' = "transfers"
    /\ UNCHANGED <<Inputs, Pure, SmState, k, marked_transfer_stops,
                   route_marked_stops, actual_rounds, run_no, first_result,
                   journeys>>

AddTransferTime ==
    /\ pc = "transfers"
    /\ LET res == add_transfer_time(bag_round_stop, k, marked_stops, Transfers)
       IN  /\ bag_round_stop' = res.brs
           /\ marked_transfer_stops' = OrderSet(res.marked)
           /\ marked_stops' = OrderSet(Range(marked_stops) \cup res.marked)
    /\ IF SharedMobEnabled
       THEN pc' = "shared_mob" /\ UNCHANGED k
       ELSE pc' = "round_start" /\ k' = k + 1
    /\ UNCHANGED <<Inputs, Pure, SmState, route_marked_stops, actual_rounds,
                   run_no, first_result, journeys>>

ImproveWithSharedMob ==
    /\ pc = "shared_mob"
    /\ LET res == improve_with_shared_mob(bag_round_stop, k,
                      marked_transfer_stops, visited_renting_stations,
                      vehicle_transfers, no_source, no_dest)
       IN  /\ bag_round_stop' = res.brs
           /\ visited_renting_stations' = res.visited
           /\ vehicle_transfers' = res.vts
           /\ marked_stops' = OrderSet(Range(marked_stops) \cup res.marked)
    /\ k' = k + 1
    /\ pc' = "round_start"
    /\ UNCHANGED <<Inputs, Pure, marked_transfer_stops, route_marked_stops,
                   actual_rounds, station_status, no_source, no_dest,
                   v_transfers, first_status, run_no, first_result, journeys>>

\* return bag_round_stop
Return ==
    /\ pc = "round_start"
    /\ k > rounds
    /\ pc' = "done"
    /\ first_result' = IF run_no = 1 THEN bag_round_stop ELSE first_result
    /\ UNCHANGED <<Inputs, Pure, SmState, k, bag_round_stop, marked_stops,
                   marked_transfer_stops, route_marked_stops, actual_rounds,
                   run_no, journeys>>

\* the round whose bags the query reads: actual_rounds as returned by
\* McRaptorAlgorithm.run, the round budget for the shared-mobility engine
FinalRound == IF variant = "mc" THEN actual_rounds ELSE rounds

\* the destinations without destination_stops.pop(origin_station, None)
DestinationsWithOrigin == Stations

\* run_raptor: every station but the origin station
Destinations == Stations \ {StationOf[from_stops[1]]}

\* the query: best legs and reconstructed journeys of every destination
ReconstructJourneys ==
    /\ pc = "done"
    /\ journeys' =
          [st \in Destinations |->
              reconstruct_journeys(
                  from_stops,
                  best_legs_to_destination_station(
                      AscSeq(StopsOfStation(st)), bag_round_stop[FinalRound]),
                  bag_round_stop, FinalRound)]
    /\ pc' = "reconstructed"
    /\ UNCHANGED <<Inputs, Pure, SmState, k, bag_round_stop, marked_stops,
                   marked_transfer_stops, route_marked_stops, actual_rounds,
                   run_no, first_result>>

Next ==
    \/ Initialization
    \/ InitializeSharedMob
    \/ ImmediateTransfers
    \/ BeginRound
    \/ AccumulateRoutes
    \/ TraverseRoute
    \/ AddTransferTime
    \/ ImproveWithSharedMob
    \/ Return
    \/ ReconstructJourneys

Spec == Init /\ [][Next]_vars


\* ---------------------------------------------------------------------
\* Bag.merge as a pure function: two bags over a small label domain
\* ---------------------------------------------------------------------
MaxOther == 1
LabelDomain ==
    {Label(NoTrip, 1, a, n) : a \in {600, 780, 1200, 2400}, n \in {0, 1, 3}}
SeqsUpTo(S, n) == UNION {[1..m -> S] : m \in 0..n}

InitMerge ==
    /\ timetable = "city"
    /\ cfg \in Configs
    /\ perm = "asc"
    /\ variant = "mc"
    /\ enable_sm = FALSE
    /\ sm_config = [preferred_vehicle |-> "Bike", enable_car |-> FALSE]
    /\ from_stops = <<1>>
    /\ dep_secs = 0
    /\ rounds = 0
    /\ pc = "merge"
    /\ k = 0
    /\ bag_round_stop = <<>>
    /\ marked_stops = <<>>
    /\ marked_transfer_stops = <<>>
    /\ route_marked_stops = <<>>
    /\ actual_rounds = 0
    /\ station_status = InitialStatus
    /\ visited_renting_stations = <<>>
    /\ no_source = {}
    /\ no_dest = {}
    /\ vehicle_transfers = <<>>
    /\ v_transfers = <<>>
    /\ run_no = 0
    /\ first_result = <<>>
    /\ first_status = InitialStatus
    /\ journeys = NoJourneys
    /\ \E ls \in SeqsUpTo(LabelDomain, MaxLen) : p_self = Bag(ls, FALSE)
    /\ \E ls \in SeqsUpTo(LabelDomain, MaxOther) : p_other = Bag(ls, FALSE)
    /\ p_out = EmptyBag
    /\ p_done = FALSE
    /\ BuildIdle

\* p_out = p_self.merge(p_other)
MergeBags ==
    /\ pc = "merge"
    /\ ~p_done
    /\ p_out' = merge(p_self, p_other)
    /\ p_done' = TRUE
    /\ UNCHANGED <<Inputs, pc, k, bag_round_stop, marked_stops,
                   marked_transfer_stops, route_marked_stops, actual_rounds,
                   SmState, run_no, first_result, journeys, p_self, p_other,
                   Build>>

NextMerge == MergeBags

SpecMerge == InitMerge /\ [][NextMerge]_vars

(***************************************************************************)
(* Properties of the bags and of the rounds.                               *)
(***************************************************************************)
LabelsOf(kk, p) == bag_round_stop[kk][p].labels
RunPhases == {"immediate", "round_start", "accumulate", "traverse",
              "transfers", "shared_mob", "done", "reconstructed"}

\* C1: after every Bag.merge done by route traversal and by transfer
\* relaxation, the labels of bag_round_stop[k][p] form an antichain: no
\* label of the bag dominates another label of the same bag.
C1_BagsAreAntichains ==
    \A kk \in DOMAIN bag_round_stop : \A p \in Stops :
        \A i, j \in 1..Len(LabelsOf(kk, p)) :
            i # j => ~Dominates(LabelsOf(kk, p)[i], LabelsOf(kk, p)[j])

\* a merge of round kk has replaced the label of the round before by one
\* that dominates it
C1_Witness ==
    /\ pc \in RunPhases
    /\ \E kk \in 1..rounds : \E p \in Stops :
          /\ LabelsOf(kk - 1, p) # <<>>
          /\ LabelsOf(kk, p) # <<>>
          /\ Dominates(LabelsOf(kk, p)[1], LabelsOf(kk - 1, p)[1])

\* C2: pareto_set returns a maximal antichain of its input: exactly the
\* labels no other label of the input dominates, so of two labels that are
\* incomparable (one arrives earlier, the other has fewer transfers) both
\* are kept.
C2_ParetoSetIsMaximalAntichain ==
    p_done =>
        LET input == Range(p_self.labels \o p_other.labels)
        IN  Range(p_out.labels) =
                {l \in input : ~(\E m \in input : Dominates(m, l))}

\* C3: when the run returns, for every round k in 1..rounds and every stop
\* p, every label of bag_round_stop[k-1][p] has in bag_round_stop[k][p] a
\* label that equals it or dominates it.
C3_NoRegression ==
    pc = "done" =>
        \A kk \in 1..rounds : \A p \in Stops :
            \A i \in 1..Len(LabelsOf(kk - 1, p)) :
                \E j \in 1..Len(LabelsOf(kk, p)) :
                    \/ LabelsOf(kk, p)[j] = LabelsOf(kk - 1, p)[i]
                    \/ Dominates(LabelsOf(kk, p)[j], LabelsOf(kk - 1, p)[i])

\* the earliest arrival time over the labels of a bag (LARGE_NUMBER for an
\* empty bag)
EarliestArrival(labels) ==
    IF labels = <<>> THEN 100000
    ELSE CHOOSE a \in {labels[i].arr : i \in 1..Len(labels)} :
            \A i \in 1..Len(labels) : a <= labels[i].arr

\* C4: for a fixed stop p the earliest arrival time over the labels of
\* bag_round_stop[k][p] never increases with k.
C4_EarliestArrivalMonotone ==
    pc = "done" =>
        \A kk \in 1..rounds : \A p \in Stops :
            EarliestArrival(LabelsOf(kk, p))
                <= EarliestArrival(LabelsOf(kk - 1, p))

\* the number of legs of a journey that ride a timetable trip
TripBoardings(legs) ==
    Cardinality({i \in 1..Len(legs) : legs[i].trip.kind = "trip"})

\* C5: with a round budget of R no reconstructed journey boards more than R
\* timetable trips.
C5_BoardingsWithinBudget ==
    pc = "reconstructed" =>
        \A st \in DOMAIN journeys :
            \A i \in 1..Len(journeys[st].out) :
                TripBoardings(journeys[st].out[i]) <= rounds

\* C6: while round k runs, the bags of the rounds before k are only read:
\* no step of round k changes bag_round_stop[j] for j < k.
C6_PreviousRoundsReadOnly ==
    [][(pc \in {"round_start", "accumulate", "traverse", "transfers",
                "shared_mob"} /\ k \in 1..rounds)
       => \A j \in 0..(k - 1) : bag_round_stop'[j] = bag_round_stop[j]]_vars

\* the traversal of round k has changed the bags of round k
C6_Witness ==
    /\ pc = "transfers"
    /\ k \in 1..rounds
    /\ bag_round_stop[k] # bag_round_stop[k - 1]

\* C7: a second run with the same timetable, origin, departure time, round
\* budget, criteria and feed availability, on the same engine instance,
\* returns a bag_round_stop identical to the one of the first run.
C7_RunsAreDeterministic ==
    (pc = "done" /\ run_no >= 2 /\ station_status = first_status)
        => bag_round_stop = first_result

\* C8: when the shared-mobility initialization of a run has finished,
\* vehicle_transfers is empty and visited_renting_stations holds exactly
\* the renting stations among the origin stops, also on a later run of the
\* same instance.
C8_SharedMobStateIsPerRun ==
    (pc = "immediate" /\ enable_sm) =>
        /\ vehicle_transfers = <<>>
        /\ Range(visited_renting_stations)
               = Range(from_stops) \cap RentingStations

\* C9: at every point of a shared-mobility run no transfer of
\* vehicle_transfers departs from a station of no_source or arrives at a
\* station of no_dest, and no label of a bag arrives at a station of
\* no_dest by a vehicle transfer.
C9_VehicleTransfersAreAvailable ==
    (enable_sm /\ pc \in RunPhases \ {"reconstructed"}) =>
        /\ \A i \in 1..Len(vehicle_transfers) :
              /\ vehicle_transfers[i].from_stop \notin no_source
              /\ vehicle_transfers[i].to_stop \notin no_dest
        /\ \A kk \in DOMAIN bag_round_stop : \A p \in Stops :
              \A i \in 1..Len(LabelsOf(kk, p)) :
                  (/\ LabelsOf(kk, p)[i].trip.kind = "transfer"
                   /\ LabelsOf(kk, p)[i].trip.ttype # "Walk")
                      => LabelsOf(kk, p)[i].trip.to \notin no_dest

\* every journey the reconstruction has yielded
YieldedJourneys ==
    UNION {Range(journeys[st].out) : st \in DOMAIN journeys}

\* C10: every yielded journey has, for consecutive legs, leg[i].arr <=
\* leg[i+1].dep, has no leg without a trip and no transfer leg between
\* stops of the same station; the times are compared after those legs
\* were removed.
C10_YieldedJourneysAreValid ==
    pc = "reconstructed" =>
        \A legs \in YieldedJourneys :
            /\ \A i \in 1..Len(legs) :
                  /\ legs[i].trip # NoTrip
                  /\ StationOf[legs[i].from_stop] # StationOf[legs[i].to_stop]
            /\ \A i \in 1..(Len(legs) - 1) :
                  LegArr(legs[i]) <= LegDep(legs[i + 1])

\* a journey that rides a trip and then walks a transfer was yielded
C10_Witness ==
    /\ pc = "reconstructed"
    /\ \E legs \in YieldedJourneys :
          /\ Len(legs) >= 2
          /\ legs[1].trip.kind = "trip"
          /\ legs[Len(legs)].trip.kind = "transfer"

(***************************************************************************)
(* Properties of the query and of the boundary cases.                      *)
(***************************************************************************)
\* a destination station is reached within the round budget: one of its
\* stops carries a label in the bags of the round the query reads
Reachable(st) ==
    \E p \in StopsOfStation(st) : LabelsOf(FinalRound, p) # <<>>

OriginStation == StationOf[from_stops[1]]

\* C12 as stated: when the destination equals the origin station, the
\* query returns for it a zero-leg journey (arrival = dep_secs); the origin
\* is a key of the result map.
C12_OriginHasZeroLegJourney ==
    pc = "reconstructed" =>
        /\ OriginStation \in DOMAIN journeys
        /\ \E i \in 1..Len(journeys[OriginStation].out) :
              journeys[OriginStation].out[i] = <<>>

\* C12 amended: the origin station is never a key of the result map: the
\* query removes it from the destinations before any journey is
\* reconstructed, and the keys are the other stations only.
C12_OriginIsNotADestination ==
    pc = "reconstructed" =>
        /\ OriginStation \notin DOMAIN journeys
        /\ DOMAIN journeys \subseteq Stations \ {OriginStation}

\* a query has answered, its origin stops carry their labels in the final
\* round, and another station got a journey
C12_Witness ==
    /\ pc = "reconstructed"
    /\ \A p \in Range(from_stops) : LabelsOf(FinalRound, p) # <<>>
    /\ \E st \in DOMAIN journeys : journeys[st].out # <<>>

\* the stops one walking transfer away from an origin stop
WalkFromOrigin ==
    {Transfers[i].to_stop :
        i \in {j \in 1..Len(Transfers) :
                  Transfers[j].from_stop \in Range(from_stops)}}

\* C13 as stated: with rounds = 0 the run returns bags in which only the
\* origin stops carry a label; every other stop, also one connected to an
\* origin stop by a walking transfer, has an empty bag at round 0.
C13_OnlyOriginsLabelledAtRoundZero ==
    (pc = "done" /\ rounds = 0) =>
        \A p \in Stops \ Range(from_stops) : LabelsOf(0, p) = <<>>

\* C13 amended: with rounds = 0 every origin stop carries a label; in
\* McRaptorAlgorithm.run no other stop does, and in BaseRaptorAlgorithm.run
\* the only other labelled stops are those one walking transfer away from
\* an origin stop, labelled by the immediate transfers.
C13_RoundZeroLabels ==
    (pc = "done" /\ rounds = 0) =>
        /\ \A p \in Range(from_stops) : LabelsOf(0, p) # <<>>
        /\ \A p \in Stops \ Range(from_stops) :
              LabelsOf(0, p) # <<>> => (variant = "sm" /\ p \in WalkFromOrigin)
        /\ variant = "sm" =>
              \A p \in WalkFromOrigin \ Range(from_stops) :
                  LabelsOf(0, p) # <<>>

\* a run with rounds = 0 has returned and a stop that is not an origin
\* stop carries a label of an immediate transfer
C13_Witness ==
    /\ pc = "done"
    /\ rounds = 0
    /\ \E p \in Stops \ Range(from_stops) :
          /\ LabelsOf(0, p) # <<>>
          /\ LabelsOf(0, p)[1].trip.kind = "transfer"

\* C14: a label in which the raw value of some criterion exceeds the
\* criterion's upper bound is discarded: it is never a member of a bag of
\* any round and stop, not even of a bag that was empty before the merge.
C14_NoLabelBeyondUpperBound ==
    \A kk \in DOMAIN bag_round_stop : \A p \in Stops :
        \A i \in 1..Len(LabelsOf(kk, p)) :
            /\ LabelsOf(kk, p)[i].arr <= cfg.uba
            /\ LabelsOf(kk, p)[i].ntr <= cfg.ubt

(***************************************************************************)
(* Properties of Bag.merge as a function.                                  *)
(***************************************************************************)
IsAntichain(labels) ==
    \A i, j \in 1..Len(labels) :
        i # j => (labels[i] # labels[j] /\ ~Dominates(labels[i], labels[j]))

\* every label of other is dominated by, or has the cost of, a label of self
AllDominatedOrCostEqual(self, other) ==
    \A j \in 1..Len(other.labels) :
        \E i \in 1..Len(self.labels) :
            \/ Dominates(self.labels[i], other.labels[j])
            \/ total_cost(self.labels[i]) = total_cost(other.labels[j])

\* C15: Bag.merge(other) returns a bag whose updated flag is true iff the
\* returned label list differs from the receiver's (false when both bags
\* are empty); merging a bag whose labels are all dominated by, or
\* cost-equal to, labels of the receiver (a bag of pairwise non-dominating
\* labels) yields updated = false.
C15_MergeUpdatedFlag ==
    p_done =>
        /\ p_out.updated <=> (p_out.labels # p_self.labels)
        /\ (p_self.labels = <<>> /\ p_other.labels = <<>>) => ~p_out.updated
        /\ (IsAntichain(p_self.labels)
              /\ AllDominatedOrCostEqual(p_self, p_other)) => ~p_out.updated

(***************************************************************************)
(* Building trips: Trip.add_stop_time, TransferTrip, Trips.add             *)
(* (structures.py), called as the trips processor of timetable.py does.    *)
(***************************************************************************)
MaxStopTimes == 3
MaxTrips == 1

\* a time for which np.isfinite is false
Infinity == 1000000
isfinite(t) == t # Infinity
StopTimeValues == {0, 600, Infinity}
\* <<dts_arr, dts_dep>> of the stop times added to a trip: finite pairs in
\* and out of order, and one with a non-finite arrival
StopTimeInputs == ({0, 600} \X {0, 600}) \cup {<<Infinity, 0>>}

\* TripStopTime(stop, dts_arr, dts_dep)
TST(stop, a, d) == [stop |-> stop, dts_arr |-> a, dts_dep |-> d]

\* an add_stop_time without its assertions
add_stop_time_unchecked(sts, st) == TRUE

\* the assertions of Trip.add_stop_time pass (they are skipped unless both
\* times are finite)
add_stop_time_accepts(sts, st) ==
    (isfinite(st.dts_arr) /\ isfinite(st.dts_dep)) =>
        /\ st.dts_arr <= st.dts_dep
        /\ (sts = <<>> \/ sts[Len(sts)].dts_dep <= st.dts_arr)

\* a call, the stop times it found, whether it raised and what it returned
Call(op, arg, before, raised, result) ==
    [op |-> op, arg |-> arg, before |-> before, raised |-> raised,
     result |-> result]

InitTrip ==
    /\ timetable = "city"
    /\ cfg = CHOOSE c \in Configs : c.ubt = 20
    /\ perm = "asc"
    /\ variant = "mc"
    /\ enable_sm = FALSE
    /\ sm_config = [preferred_vehicle |-> "Bike", enable_car |-> FALSE]
    /\ from_stops = <<1>>
    /\ dep_secs = 0
    /\ rounds = 0
    /\ pc = "trips"
    /\ k = 0
    /\ bag_round_stop = <<>>
    /\ marked_stops = <<>>
    /\ marked_transfer_stops = <<>>
    /\ route_marked_stops = <<>>
    /\ actual_rounds = 0
    /\ station_status = InitialStatus
    /\ visited_renting_stations = <<>>
    /\ no_source = {}
    /\ no_dest = {}
    /\ vehicle_transfers = <<>>
    /\ v_transfers = <<>>
    /\ run_no = 0
    /\ first_result = <<>>
    /\ first_status = InitialStatus
    /\ journeys = NoJourneys
    /\ p_self = EmptyBag /\ p_other = EmptyBag /\ p_out = EmptyBag
    /\ p_done = FALSE
    /\ BuildIdle

Engine == <<Inputs, pc, k, bag_round_stop, marked_stops, marked_transfer_stops,
            route_marked_stops, actual_rounds, SmState, run_no, first_result,
            journeys, p_self, p_other, p_out, p_done>>

\* trip.add_stop_time(TripStopTime(..., dts_arr, dts_dep)) on the trip being
\* built: an AssertionError leaves stop_times as it was
AddStopTime ==
    /\ pc = "trips"
    /\ Len(trips_set_idx) < MaxTrips
    /\ Len(stop_times) < MaxStopTimes
    /\ \E ad \in StopTimeInputs :
         LET st == TST(Len(stop_times) + 1, ad[1], ad[2])
             ok == add_stop_time_accepts(stop_times, st)
         IN  /\ stop_times' = IF ok THEN Append(stop_times, st) ELSE stop_times
             /\ last_call' = Call("add_stop_time", st, stop_times, ~ok, <<>>)
    /\ UNCHANGED <<Engine, trips_set_idx, routes_set_idx, set_stops_idx,
                   stop_to_routes>>

\* trips.add(trip), then the processor goes on with a new Trip()
TripsAdd ==
    /\ pc = "trips"
    /\ Len(trips_set_idx) < MaxTrips
    /\ LET ok == Len(stop_times) >= 2
       IN  /\ trips_set_idx' = IF ok THEN Append(trips_set_idx, stop_times)
                               ELSE trips_set_idx
           /\ stop_times' = IF ok THEN <<>> ELSE stop_times
           /\ last_call' = Call("Trips.add", stop_times, trips_set_idx, ~ok, <<>>)
    /\ UNCHANGED <<Engine, routes_set_idx, set_stops_idx, stop_to_routes>>

\* TransferTrip(from_stop, to_stop, dep_time, arr_time, ...): a fresh trip
\* and two add_stop_time calls; an AssertionError leaves no object
NewTransferTrip ==
    /\ pc = "trips"
    /\ \E dep \in StopTimeValues, arr \in StopTimeValues :
         LET dep_stop_time == TST(1, dep, dep)
             arr_stop_time == TST(2, arr, arr)
             ok == /\ add_stop_time_accepts(<<>>, dep_stop_time)
                   /\ add_stop_time_accepts(<<dep_stop_time>>, arr_stop_time)
         IN  last_call' = Call("TransferTrip", <<dep, arr>>, <<>>, ~ok,
                               IF ok THEN <<dep_stop_time, arr_stop_time>>
                               ELSE <<>>)
    /\ UNCHANGED <<Engine, stop_times, trips_set_idx, routes_set_idx,
                   set_stops_idx, stop_to_routes>>

NextTrip ==
    \/ AddStopTime
    \/ TripsAdd
    \/ NewTransferTrip

SpecTrip == InitTrip /\ [][NextTrip]_vars

\* arr_i <= dep_i <= arr_{i+1} along the stop times
StopTimesOrdered(sts) ==
    \A i \in 1..Len(sts) :
        /\ sts[i].dts_arr <= sts[i].dts_dep
        /\ i < Len(sts) => sts[i].dts_dep <= sts[i + 1].dts_arr

\* the same, asked of the stop times whose two times are finite
FiniteStopTimesOrdered(sts) ==
    \A i \in 1..Len(sts) :
        (isfinite(sts[i].dts_arr) /\ isfinite(sts[i].dts_dep)) =>
            /\ sts[i].dts_arr <= sts[i].dts_dep
            /\ i > 1 => sts[i - 1].dts_dep <= sts[i].dts_arr

\* arr > dep, or an arrival earlier than the previous stop's departure
OutOfOrder(sts, st) ==
    \/ st.dts_arr > st.dts_dep
    \/ sts # <<>> /\ st.dts_arr < sts[Len(sts)].dts_dep

\* add_stop_time raised and left stop_times alone; Trips.add raised and
\* left the trips alone
Rejected ==
    /\ last_call.raised
    /\ last_call.op = "add_stop_time" => stop_times = last_call.before
    /\ last_call.op = "Trips.add" => trips_set_idx = last_call.before

MaxAdds == 3
MaxVehicleTransfers == 1

BuildStops == {1, 2, 3}
\* the trips handed to Routes.add: two with the same stops, one overtaking
\* with the same first departure, one in reverse, one going further, one
\* coming back to its first stop
TripDomain == {
    <<TST(1, 0, 0), TST(2, 600, 600)>>,
    <<TST(1, 600, 600), TST(2, 1200, 1200)>>,
    <<TST(1, 600, 600), TST(2, 900, 900)>>,
    <<TST(2, 0, 0), TST(1, 600, 600)>>,
    <<TST(1, 0, 0), TST(2, 600, 600), TST(3, 1200, 1200)>>,
    <<TST(1, 0, 0), TST(2, 600, 600), TST(1, 1200, 1200)>>
}
QueryTimes == {0, 600, 601, 1300}

\* Trip.trip_stop_ids
trip_stop_ids(trip) == [i \in 1..Len(trip) |-> trip[i].stop]

\* a key of set_stops_idx that forgets the order of the stops
stop_id_set(trip) == Range(trip_stop_ids(trip))

\* the key of Routes.set_stops_idx
route_key(trip) == trip_stop_ids(trip)

RECURSIVE AppendRouteTo(_, _, _, _)
\* for trip_stop_time in trip: stop_to_routes[stop].append(route)
AppendRouteTo(s2r, stops, id, i) ==
    IF i > Len(stops) THEN s2r
    ELSE AppendRouteTo([s2r EXCEPT ![stops[i]] = Append(@, id)], stops, id,
                       i + 1)

RECURSIVE NumTrips(_)
NumTrips(rs) == IF rs = <<>> THEN 0
                ELSE Len(rs[1].trips) + NumTrips(Tail(rs))

InitRoutes ==
    /\ timetable = "city"
    /\ cfg = CHOOSE c \in Configs : c.ubt = 20
    /\ perm = "asc"
    /\ variant = "mc"
    /\ enable_sm = FALSE
    /\ sm_config = [preferred_vehicle |-> "Bike", enable_car |-> FALSE]
    /\ from_stops = <<1>>
    /\ dep_secs = 0
    /\ rounds = 0
    /\ pc = "routes"
    /\ k = 0
    /\ bag_round_stop = <<>>
    /\ marked_stops = <<>>
    /\ marked_transfer_stops = <<>>
    /\ route_marked_stops = <<>>
    /\ actual_rounds = 0
    /\ station_status = InitialStatus
    /\ visited_renting_stations = <<>>
    /\ no_source = {}
    /\ no_dest = {}
    /\ vehicle_transfers = <<>>
    /\ v_transfers = <<>>
    /\ run_no = 0
    /\ first_result = <<>>
    /\ first_status = InitialStatus
    /\ journeys = NoJourneys
    /\ p_self = EmptyBag /\ p_other = EmptyBag /\ p_out = EmptyBag
    /\ p_done = FALSE
    /\ stop_times = <<>>
    /\ trips_set_idx = <<>>
    /\ last_call = NoCall
    /\ routes_set_idx = <<>>
    /\ set_stops_idx = [key \in {} |-> 0]
    /\ stop_to_routes = [s \in BuildStops |-> <<>>]

\* routes.add(trip)
RoutesAdd ==
    /\ pc = "routes"
    /\ NumTrips(routes_set_idx) < MaxAdds
    /\ \E trip \in TripDomain :
         LET key == route_key(trip)
             id == Len(routes_set_idx) + 1
         IN  /\ IF key \in DOMAIN set_stops_idx
                THEN /\ routes_set_idx' =
                          [routes_set_idx EXCEPT ![set_stops_idx[key]].trips =
                               Append(@, trip)]
                     /\ UNCHANGED <<set_stops_idx, stop_to_routes>>
                ELSE /\ routes_set_idx' =
                          Append(routes_set_idx,
                                 [stops |-> trip_stop_ids(trip),
                                  trips |-> <<trip>>])
                     /\ set_stops_idx' =
                          [x \in DOMAIN set_stops_idx \cup {key} |->
                              IF x = key THEN id ELSE set_stops_idx[x]]
                     /\ stop_to_routes' =
                          AppendRouteTo(stop_to_routes, trip_stop_ids(trip),
                                        id, 1)
             /\ last_call' = Call("Routes.add", trip, <<>>, FALSE,
                                  IF key \in DOMAIN set_stops_idx
                                  THEN set_stops_idx[key] ELSE id)
    /\ UNCHANGED <<Engine, stop_times, trips_set_idx>>

\* routes[r].earliest_trip(dts_arr, stop) for a stop of the route
EarliestTrip ==
    /\ pc = "routes"
    /\ \E r \in 1..Len(routes_set_idx), dts_arr \in QueryTimes :
         \E stop \in Range(routes_set_idx[r].stops) :
            last_call' = Call("earliest_trip", <<r, dts_arr, stop>>, <<>>,
                              FALSE,
                              earliest_trip_of(routes_set_idx[r].stops,
                                               routes_set_idx[r].trips,
                                               dts_arr, stop))
    /\ UNCHANGED <<Engine, stop_times, trips_set_idx, routes_set_idx,
                   set_stops_idx, stop_to_routes>>

NextRoutes ==
    \/ RoutesAdd
    \/ EarliestTrip

SpecRoutes == InitRoutes /\ [][NextRoutes]_vars

\* the trips of all routes, each with the route that holds it
RouteTrips ==
    UNION {{<<r, i>> : i \in 1..Len(routes_set_idx[r].trips)} :
              r \in 1..Len(routes_set_idx)}

\* C17: after any sequence of Routes.add(trip) calls, two trips belong to
\* the same Route iff their ordered tuples of stop ids are identical, every
\* Route's stop sequence equals the stop sequence of each of its trips, and
\* get_routes_of_stop(s) contains a route r iff s occurs in r's stops.
C17_RoutesGroupByStopSequence ==
    pc = "routes" =>
        /\ \A a \in RouteTrips, b \in RouteTrips :
              (a[1] = b[1]) <=>
                 (trip_stop_ids(routes_set_idx[a[1]].trips[a[2]])
                    = trip_stop_ids(routes_set_idx[b[1]].trips[b[2]]))
        /\ \A a \in RouteTrips :
              routes_set_idx[a[1]].stops
                 = trip_stop_ids(routes_set_idx[a[1]].trips[a[2]])
        /\ \A s \in BuildStops : \A r \in 1..Len(routes_set_idx) :
              (r \in Range(stop_to_routes[s]))
                 <=> (s \in Range(routes_set_idx[r].stops))

\* two routes over the same set of stops in different orders, the first
\* with two trips
C17_Witness ==
    /\ pc = "routes"
    /\ \E r \in 1..Len(routes_set_idx), q \in 1..Len(routes_set_idx) :
          /\ r # q
          /\ Len(routes_set_idx[r].trips) >= 2
          /\ Range(routes_set_idx[r].stops) = Range(routes_set_idx[q].stops)

\* Trip.get_stop_time(stop).dts_dep: the departure of a trip from a stop
DepartureAt(trip, stop) ==
    trip[stop_order(trip_stop_ids(trip), stop)].dts_dep

\* C18: Route.earliest_trip(dep_secs, stop) returns None when no trip of the
\* route departs from stop at or after dep_secs, and otherwise a trip whose
\* departure at stop is the minimum over all trips with departure >=
\* dep_secs; a trip departing exactly at dep_secs is boardable.
C18_EarliestTripIsEarliest ==
    last_call.op = "earliest_trip" =>
        LET trips == routes_set_idx[last_call.arg[1]].trips
            dts_arr == last_call.arg[2]
            stop == last_call.arg[3]
            res == last_call.result
            boardable == {i \in 1..Len(trips) :
                             DepartureAt(trips[i], stop) >= dts_arr}
        IN  /\ (res = 0) <=> (boardable = {})
            /\ res # 0 =>
                  /\ res \in boardable
                  /\ \A i \in boardable :
                        DepartureAt(trips[res], stop)
                           <= DepartureAt(trips[i], stop)
            /\ (\E i \in 1..Len(trips) : DepartureAt(trips[i], stop) = dts_arr)
                  => res # 0 /\ DepartureAt(trips[res], stop) = dts_arr

\* a route of several trips was asked at the very departure time of one of
\* them, an earlier trip being gone
C18_Witness ==
    /\ last_call.op = "earliest_trip"
    /\ last_call.result # 0
    /\ LET trips == routes_set_idx[last_call.arg[1]].trips
       IN  /\ Len(trips) >= 2
           /\ DepartureAt(trips[last_call.result], last_call.arg[3])
                 = last_call.arg[2]
           /\ \E i \in 1..Len(trips) :
                 DepartureAt(trips[i], last_call.arg[3]) < last_call.arg[2]

\* the labels a transfer into q makes of the labels that the bags brs of
\* round kk hold at the transfer's origin
TransferCandidates(brs, kk, q) ==
    UNION {Range(TempLabels(brs[kk][Transfers[i].from_stop].labels,
                            Transfers[i], 1)) :
              i \in {j \in 1..Len(Transfers) : Transfers[j].to_stop = q}}

\* C19: transfers are not transitive within one round: every label that the
\* transfer relaxation of round k puts into bag[k][q] is derived, over a
\* transfer p -> q, from a label that bag[k][p] held when the route
\* traversal of round k finished, whatever the order of the marked stops.
C19_TransfersNotTransitive ==
    [][pc = "transfers" =>
          \A q \in Stops :
              Range(bag_round_stop'[k][q].labels)
                  \ Range(bag_round_stop[k][q].labels)
                \subseteq TransferCandidates(bag_round_stop, k, q)]_vars

\* N: the renting stations newly visited by Phase D of this round
NewRentingStations ==
    Range(visited_renting_stations') \ Range(visited_renting_stations)

\* C20: every vehicle transfer generated in Phase D of a round goes from a
\* renting station visited before this round to a station of N, the
\* stations newly visited in this round, within one shared-mobility system:
\* none between two stations of N and none from a station to itself.
C20_VehicleTransfersOldToNew ==
    [][pc = "shared_mob" =>
          \A i \in (Len(vehicle_transfers) + 1)..Len(vehicle_transfers') :
              LET t == vehicle_transfers'[i]
              IN  /\ t.from_stop \in Range(visited_renting_stations)
                  /\ t.to_stop \in NewRentingStations
                  /\ t.from_stop \notin NewRentingStations
                  /\ t.from_stop # t.to_stop
                  /\ SystemId[t.from_stop] = SystemId[t.to_stop]]_vars

\* the routes serving at least one of the stops
RoutesServing(stops) ==
    {r \in RouteIds : Range(Routes[r].stops) \cap stops # {}}

\* the one of the stops that comes first on route r
FirstOnRoute(r, stops) ==
    CHOOSE p \in Range(Routes[r].stops) \cap stops :
        \A q \in Range(Routes[r].stops) \cap stops :
            stop_index(r, p) <= stop_index(r, q)

\* C21: route accumulation returns exactly one (route, stop) pair for every
\* route that serves a marked stop and none for the other routes, the stop
\* being the marked stop with the smallest stop index on the route; the
\* pairs are the same when the marked stops are iterated in reverse.
C21_AccumulateRoutes ==
    pc = "traverse" =>
        /\ Range(route_marked_stops)
              = {<<r, FirstOnRoute(r, Range(marked_stops))>> :
                    r \in RoutesServing(Range(marked_stops))}
        /\ Len(route_marked_stops)
              = Cardinality(RoutesServing(Range(marked_stops)))
        /\ Range(accumulate_routes(Reverse(marked_stops)))
              = Range(route_marked_stops)

\* a route serves two marked stops and the later one on the route was
\* iterated first
C21_Witness ==
    /\ pc = "traverse"
    /\ \E r \in RouteIds : \E i \in 1..Len(marked_stops) :
          \E j \in (i + 1)..Len(marked_stops) :
             /\ marked_stops[i] \in Range(Routes[r].stops)
             /\ marked_stops[j] \in Range(Routes[r].stops)
             /\ stop_index(r, marked_stops[i]) > stop_index(r, marked_stops[j])

\* round k - 1 has just been completed and its marked set handed on
EndOfRound ==
    /\ pc = "round_start"
    /\ k >= 2
    /\ variant = "mc" => actual_rounds = k - 1

\* the stops whose labels of round kk differ from those of round kk - 1
ChangedStops(kk) ==
    {p \in Stops : LabelsOf(kk, p) # LabelsOf(kk - 1, p)}

\* C22: marking follows the updated flag: at the end of round k every stop
\* whose bag of round k differs from its bag of round k - 1 is in the marked
\* set handed to round k + 1, and every stop of that set had a merge into
\* its bag of round k that returned updated = true, that is one that
\* changed its labels.
C22_MarkedIffChanged ==
    EndOfRound =>
        /\ ChangedStops(k - 1) \subseteq Range(marked_stops)
        /\ \A p \in Range(marked_stops) : p \in ChangedStops(k - 1)

\* a round ended with a stop marked by a footpath and a labelled stop that
\* was merged into but left unmarked
C22_Witness ==
    /\ EndOfRound
    /\ Range(marked_transfer_stops) # {}
    /\ \E p \in Stops :
          /\ p \notin Range(marked_stops)
          /\ LabelsOf(k - 1, p) # <<>>
          /\ \E i \in 1..Len(Transfers) :
                /\ Transfers[i].to_stop = p
                /\ Transfers[i].from_stop \in Range(marked_stops)

\* the walking transfers from stop p to stop q
WalksBetween(p, q) ==
    {Transfers[i] : i \in {j \in 1..Len(Transfers) :
                              /\ Transfers[j].from_stop = p
                              /\ Transfers[j].to_stop = q}}

\* C23: a label made by the transfer relaxation over a transfer (p -> q, t)
\* sits at q, has boarding_stop = p and the arrival time of its
\* TransferTrip, and that trip leaves p at the arrival time of the label it
\* extends and reaches q t later: its arrival is its departure plus the
\* transfer time.
C23_TransferTripSpansTransfer ==
    \A kk \in DOMAIN bag_round_stop : \A q \in Stops :
        \A i \in 1..Len(LabelsOf(kk, q)) :
            LET l == LabelsOf(kk, q)[i]
            IN  (l.trip.kind = "transfer" /\ l.trip.ttype = "Walk") =>
                    /\ l.trip.to = q
                    /\ l.boarding_stop = l.trip.from
                    /\ l.arr = l.trip.arr
                    /\ \E t \in WalksBetween(l.trip.from, q) :
                          l.trip.arr = l.trip.dep + t.transfer_time

\* C24: when several trips of a route have the same minimal departure time
\* >= dep_secs at the boarding stop, Route.earliest_trip returns the one
\* among them with the earliest arrival time at the following stop.
C24_TiesByNextArrival ==
    (last_call.op = "earliest_trip" /\ last_call.result # 0) =>
        LET route == routes_set_idx[last_call.arg[1]]
            stop == last_call.arg[3]
            idx == stop_order(route.stops, stop)
            res == last_call.result
            tied == {i \in 1..Len(route.trips) :
                        route.trips[i][idx].dts_dep
                           = route.trips[res][idx].dts_dep}
        IN  idx < Len(route.stops) =>
                \A i \in tied :
                    route.trips[res][idx + 1].dts_arr
                       <= route.trips[i][idx + 1].dts_arr

\* C25: when a label of the incoming bag and a label already in the bag
\* have equal total cost and one of the two is kept by the merge, the one
\* kept is the one with the earlier arrival time, whichever bag it came
\* from.
C25_EqualCostKeepsEarlier ==
    p_done =>
        \A i \in 1..Len(p_self.labels), j \in 1..Len(p_other.labels) :
            LET a == p_self.labels[i]
                b == p_other.labels[j]
                early == IF a.arr < b.arr THEN a ELSE b
                late == IF a.arr < b.arr THEN b ELSE a
            IN  (/\ total_cost(a) = total_cost(b)
                 /\ a.arr # b.arr
                 /\ {a, b} \cap Range(p_out.labels) # {})
                => (early \in Range(p_out.labels)
                      /\ late \notin Range(p_out.labels))

\* ---------------------------------------------------------------------
\* _add_vehicle_transfer on two renting stations of arbitrary system ids
\* and transport types

\* the shared-mobility members of TransportType that a renting station offers
VehicleTypes == {"Bike", "Car", "ElectricBike"}
SystemIds == {1, 2}
VehicleConfigs == [preferred_vehicle : VehicleTypes, enable_car : BOOLEAN]
\* no_source and no_dest: both stations usable, 5 not a source, 6 not a
\* destination
Availabilities == {<<{}, {}>>, <<{5}, {}>>, <<{}, {6}>>}

InitVehicle ==
    /\ timetable = "city"
    /\ cfg = CHOOSE c \in Configs : c.ubt = 20
    /\ perm = "asc"
    /\ variant = "sm"
    /\ enable_sm = TRUE
    /\ sm_config \in VehicleConfigs
    /\ from_stops = <<1>>
    /\ dep_secs = 0
    /\ rounds = 0
    /\ pc = "vehicle"
    /\ k = 0
    /\ bag_round_stop = <<>>
    /\ marked_stops = <<>>
    /\ marked_transfer_stops = <<>>
    /\ route_marked_stops = <<>>
    /\ actual_rounds = 0
    /\ station_status = InitialStatus
    /\ visited_renting_stations = <<>>
    /\ no_source = {}
    /\ no_dest = {}
    /\ vehicle_transfers = <<>>
    /\ v_transfers = <<>>
    /\ run_no = 0
    /\ first_result = <<>>
    /\ first_status = InitialStatus
    /\ journeys = NoJourneys
    /\ p_self = EmptyBag /\ p_other = EmptyBag /\ p_out = EmptyBag
    /\ p_done = FALSE
    /\ BuildIdle

\* self._add_vehicle_transfer(stop_a, stop_b) with stop_a = 5, stop_b = 6
AddVehicleTransfer ==
    /\ pc = "vehicle"
    /\ Len(vehicle_transfers) < MaxVehicleTransfers
    /\ \E sys_b \in SystemIds, types_a \in SUBSET VehicleTypes,
          types_b \in SUBSET VehicleTypes, avail \in Availabilities :
         LET sys_a == 1
             out == add_vehicle_transfer_of(vehicle_transfers, 5, 6,
                                            sys_a, sys_b, types_a, types_b,
                                            sm_config, avail[1], avail[2])
         IN  /\ no_source' = avail[1]
             /\ no_dest' = avail[2]
             /\ vehicle_transfers' = out.vts
             /\ last_call' = Call("add_vehicle_transfer",
                                  <<sys_a, sys_b, types_a, types_b>>,
                                  vehicle_transfers, out.raised, out.vts)
    /\ UNCHANGED <<Inputs, pc, k, bag_round_stop, marked_stops,
                   marked_transfer_stops, route_marked_stops, actual_rounds,
                   station_status, visited_renting_stations, v_transfers,
                   first_status, run_no, first_result, journeys,
                   p_self, p_other, p_out, p_done, stop_times, trips_set_idx,
                   routes_set_idx, set_stops_idx, stop_to_routes>>

NextVehicle == AddVehicleTransfer

SpecVehicle == InitVehicle /\ [][NextVehicle]_vars

\* the transfers the last call appended to vehicle_transfers
AddedTransfers ==
    SubSeq(last_call.result, Len(last_call.before) + 1, Len(last_call.result))

Criterion(name, weight, raw_value, upper_bound) ==
    [name |-> name, weight |-> weight, raw_value |-> raw_value,
     upper_bound |-> upper_bound]

\* self.update(data): identical says that data.old_trip is the very object
\* data.new_trip, which is the only way for a TransferTrip (uuid id) to be
\* equal to old_trip
TransfersNumberCriterion_update(self, old_trip, new_trip, identical) ==
    Criterion(self.name, self.weight,
              IF identical THEN self.raw_value
              ELSE TransfersNumberUpdate(self.raw_value, old_trip, new_trip),
              self.upper_bound)

CriterionDomain ==
    {Criterion("transfers_number", w, raw, ub) :
        w \in {1, 2}, raw \in 0..3, ub \in {2, 20}}

\* trips of routes, a transfer inside station 2 (stops 2 and 3), transfers
\* between stations
UpdateTrips == {
    Trip(1, 1), Trip(1, 2), Trip(2, 1),
    TransferTrip(2, 3, 600, 660, "Walk"),
    TransferTrip(3, 2, 600, 660, "Walk"),
    TransferTrip(2, 5, 600, 720, "Walk"),
    TransferTrip(5, 6, 720, 900, "Bike")
}

InitCriterion ==
    /\ timetable = "city"
    /\ cfg = CHOOSE c \in Configs : c.ubt = 20
    /\ perm = "asc"
    /\ variant = "mc"
    /\ enable_sm = FALSE
    /\ sm_config = [preferred_vehicle |-> "Bike", enable_car |-> FALSE]
    /\ from_stops = <<1>>
    /\ dep_secs = 0
    /\ rounds = 0
    /\ pc = "criterion"
    /\ k = 0
    /\ bag_round_stop = <<>>
    /\ marked_stops = <<>>
    /\ marked_transfer_stops = <<>>
    /\ route_marked_stops = <<>>
    /\ actual_rounds = 0
    /\ station_status = InitialStatus
    /\ visited_renting_stations = <<>>
    /\ no_source = {}
    /\ no_dest = {}
    /\ vehicle_transfers = <<>>
    /\ v_transfers = <<>>
    /\ run_no = 0
    /\ first_result = <<>>
    /\ first_status = InitialStatus
    /\ journeys = NoJourneys
    /\ p_self = EmptyBag /\ p_other = EmptyBag /\ p_out = EmptyBag
    /\ p_done = FALSE
    /\ BuildIdle

\* criterion.update(LabelUpdate(old_trip, new_trip, ...))
CriterionUpdate ==
    /\ pc = "criterion"
    /\ \E self \in CriterionDomain, new_trip \in UpdateTrips,
          old_trip \in UpdateTrips \cup {NoTrip}, identical \in BOOLEAN :
         /\ identical => old_trip = new_trip
         /\ last_call' = Call("update", <<self, old_trip, new_trip, identical>>,
                              <<>>, FALSE,
                              TransfersNumberCriterion_update(
                                  self, old_trip, new_trip, identical))
    /\ UNCHANGED <<Engine, stop_times, trips_set_idx, routes_set_idx,
                   set_stops_idx, stop_to_routes>>

NextCriterion == CriterionUpdate

SpecCriterion == InitCriterion /\ [][NextCriterion]_vars

\* new_trip != old_trip: same_type_and_id on two trip objects
DiffersFrom(old_trip, new_trip, identical) ==
    /\ ~identical
    /\ \/ old_trip.kind # new_trip.kind
       \/ new_trip.kind = "transfer"
       \/ <<old_trip.r, old_trip.i>> # <<new_trip.r, new_trip.i>>

\* new_trip is a TransferTrip between two stops of the same station
SameStationTransfer(new_trip) ==
    /\ new_trip.kind = "transfer"
    /\ StationOf[new_trip.from] = StationOf[new_trip.to]

\* C27: update returns raw_value + 1 iff new_trip differs from old_trip and
\* new_trip is not a TransferTrip between two stops of the same station,
\* returns raw_value unchanged in every other case, and always preserves
\* name, weight and upper_bound.
C27_TransfersNumberUpdate ==
    last_call.op = "update" =>
        LET self == last_call.arg[1]
            old_trip == last_call.arg[2]
            new_trip == last_call.arg[3]
            counts == /\ DiffersFrom(old_trip, new_trip, last_call.arg[4])
                      /\ ~SameStationTransfer(new_trip)
        IN  /\ counts => last_call.result.raw_value = self.raw_value + 1
            /\ ~counts => last_call.result.raw_value = self.raw_value
            /\ last_call.result.name = self.name
            /\ last_call.result.weight = self.weight
            /\ last_call.result.upper_bound = self.upper_bound

\* an update whose new trip differs from the old one but walks inside one
\* station: the count stays
C27_Witness ==
    /\ last_call.op = "update"
    /\ last_call.arg[2] = Trip(1, 1)
    /\ SameStationTransfer(last_call.arg[3])
    /\ last_call.arg[1].raw_value = 1
    /\ last_call.result.raw_value = 1

\* ---------------------------------------------------------------------
\* C28: reconstruct_journeys terminates on the bags of every run: every
\* chain of prepended legs reaches a leg without trip or a leg boarded at an
\* origin stop, none is still unfinished after MaxDepth steps.
C28_ReconstructionTerminates ==
    pc = "reconstructed" => \A st \in Destinations : ~journeys[st].cut

\* the runs on the timetable whose line calls at a stop twice
InitLoop ==
    /\ timetable = "loop"
    /\ cfg \in Configs
    /\ perm \in {"asc", "desc"}
    /\ variant \in {"mc", "sm"}
    /\ enable_sm \in (IF variant = "sm" THEN BOOLEAN ELSE {FALSE})
    /\ sm_config \in (IF enable_sm THEN SmConfigs
                      ELSE {[preferred_vehicle |-> "Bike", enable_car |-> FALSE]})
    /\ \E st \in OriginStations : from_stops = AscSeq(StopsOfStation(st))
    /\ dep_secs \in DepTimes
    /\ rounds \in 0..MaxRounds
    /\ pc = "idle"
    /\ k = 0
    /\ bag_round_stop = <<>>
    /\ marked_stops = <<>>
    /\ marked_transfer_stops = <<>>
    /\ route_marked_stops = <<>>
    /\ actual_rounds = 0
    /\ station_status = InitialStatus
    /\ visited_renting_stations = <<>>
    /\ no_source = {}
    /\ no_dest = {}
    /\ vehicle_transfers = <<>>
    /\ v_transfers = <<>>
    /\ run_no = 0
    /\ first_result = <<>>
    /\ first_status = InitialStatus
    /\ journeys = NoJourneys
    /\ p_self = EmptyBag /\ p_other = EmptyBag /\ p_out = EmptyBag
    /\ p_done = FALSE
    /\ BuildIdle

SpecLoop == InitLoop /\ [][Next]_vars

\* ---------------------------------------------------------------------
\* Journey.prepend_leg and reconstruct_journeys on a stop with two labels

LegDomain == {
    Leg(1, 2, Trip(1, 1), 600, 1),
    Leg(1, 2, Trip(1, 2), 1800, 1),
    Leg(1, 3, Trip(3, 1), 300, 1),
    Leg(3, 4, Trip(2, 1), 1200, 2),
    Leg(2, 4, Trip(1, 2), 3000, 2)
}

\* the journeys of at most MaxLen legs
JourneyDomain == SeqsUpTo(LegDomain, MaxLen)

\* labels of stop 2 that board at the origin stop 1
PredecessorLabels == {
    Label(Trip(1, 1), 1, 600, 1),
    Label(Trip(1, 2), 1, 1800, 1),
    Label(Trip(1, 1), 1, 600, 0)
}

\* the leg that reaches the destination stop 4 from stop 2
DestinationLeg == Leg(2, 4, Trip(1, 2), 3000, 2)

InitJourney ==
    /\ timetable = "city"
    /\ cfg = CHOOSE c \in Configs : c.ubt = 20
    /\ perm = "asc"
    /\ variant = "mc"
    /\ enable_sm = FALSE
    /\ sm_config = [preferred_vehicle |-> "Bike", enable_car |-> FALSE]
    /\ from_stops = <<1>>
    /\ dep_secs = 0
    /\ rounds = 0
    /\ pc = "journey"
    /\ k = 0
    /\ bag_round_stop = <<>>
    /\ marked_stops = <<>>
    /\ marked_transfer_stops = <<>>
    /\ route_marked_stops = <<>>
    /\ actual_rounds = 0
    /\ station_status = InitialStatus
    /\ visited_renting_stations = <<>>
    /\ no_source = {}
    /\ no_dest = {}
    /\ vehicle_transfers = <<>>
    /\ v_transfers = <<>>
    /\ run_no = 0
    /\ first_result = <<>>
    /\ first_status = InitialStatus
    /\ journeys = NoJourneys
    /\ p_self = EmptyBag /\ p_other = EmptyBag /\ p_out = EmptyBag
    /\ p_done = FALSE
    /\ BuildIdle

\* jrny.prepend_leg(leg): result.self is jrny.legs after the call
PrependLeg ==
    /\ pc = "journey"
    /\ \E legs \in JourneyDomain, leg \in LegDomain :
         last_call' = Call("prepend_leg", leg, legs, FALSE,
                           prepend_leg(legs, leg))
    /\ UNCHANGED <<Engine, stop_times, trips_set_idx, routes_set_idx,
                   set_stops_idx, stop_to_routes>>

\* reconstruct_journeys([1], [DestinationLeg], bags, 0) where the bag of
\* stop 2 holds the two labels first and second
ReconstructTwo ==
    /\ pc = "journey"
    /\ \E first \in PredecessorLabels, second \in PredecessorLabels :
         /\ first # second
         /\ LET bags == [p \in Stops |->
                            IF p = 2 THEN Bag(<<first, second>>, FALSE)
                            ELSE IF p = 1
                            THEN Bag(<<InitialLabel(1, 0)>>, FALSE)
                            ELSE EmptyBag]
            IN  last_call' = Call("reconstruct_journeys", <<first, second>>,
                                  <<DestinationLeg>>, FALSE,
                                  reconstruct_journeys(<<1>>,
                                                       <<DestinationLeg>>,
                                                       <<bags>>, 1).out)
    /\ UNCHANGED <<Engine, stop_times, trips_set_idx, routes_set_idx,
                   set_stops_idx, stop_to_routes>>

NextJourney ==
    \/ PrependLeg
    \/ ReconstructTwo

SpecJourney == InitJourney /\ [][NextJourney]_vars

\* the leg that a label of stop 2 contributes
PredecessorLeg(label) ==
    Leg(label.boarding_stop, 2, label.trip, label.arr, label.ntr)

\* C29: prepend_leg leaves the journey it is called on with its original
\* legs and returns a journey with the leg in front of them; when
\* reconstruct_journeys finds two compatible predecessor labels for the
\* same partial journey, it yields two journeys and each of them contains
\* exactly one of the two predecessor legs.
C29_PrependLegLeavesJourney ==
    /\ last_call.op = "prepend_leg" =>
          /\ last_call.result.self = last_call.before
          /\ last_call.result.jrny = <<last_call.arg>> \o last_call.before
    /\ last_call.op = "reconstruct_journeys" =>
          LET one == PredecessorLeg(last_call.arg[1])
              two == PredecessorLeg(last_call.arg[2])
          IN  /\ Len(last_call.result) = 2
              /\ \A j \in 1..Len(last_call.result) :
                    (one \in Range(last_call.result[j]))
                        # (two \in Range(last_call.result[j]))

\* ---------------------------------------------------------------------
\* BaseRaptorAlgorithm.run as a function of the run's inputs: the bags and
\* the marked stops after each of its phases

\* after _initialization and the immediate transfers (k = 0)
BaseImmediate ==
    LET initial_marked_stops == from_stops
        res == add_transfer_time(InitialBags(from_stops, dep_secs, rounds), 0,
                                 initial_marked_stops, Transfers)
    IN  [brs |-> res.brs,
         marked_stops |-> OrderSet(Range(initial_marked_stops) \cup res.marked)]

\* round kk of the loop: the state after the copy, after
\* _accumulate_routes, after _traverse_routes (mid) and at the end of the
\* round (last); BaseRound(0) is the state before the first round
RECURSIVE BaseRound(_)
BaseRound(kk) ==
    IF kk = 0
    THEN [copied |-> <<>>, route_marked_stops |-> <<>>,
          mid |-> BaseImmediate, marked_transfer_stops |-> <<>>,
          last |-> BaseImmediate]
    ELSE LET before == BaseRound(kk - 1)
             copied == [before.last.brs EXCEPT ![kk] = before.last.brs[kk - 1]]
             rms == accumulate_routes(before.last.marked_stops)
             tr == traverse_route(copied, kk, rms)
             marked_trip_stops == OrderSet(tr.marked)
             at == add_transfer_time(tr.brs, kk, marked_trip_stops, Transfers)
         IN  [copied |-> copied,
              route_marked_stops |-> rms,
              mid |-> [brs |-> tr.brs, marked_stops |-> marked_trip_stops],
              marked_transfer_stops |-> OrderSet(at.marked),
              last |-> [brs |-> at.brs,
                        marked_stops |->
                            OrderSet(Range(marked_trip_stops) \cup at.marked)]]

\* bag_round_stop and marked_stops of the shared-mobility run
RunState == [brs |-> bag_round_stop, marked_stops |-> marked_stops]

\* C30: with enable_sm false, BaseSharedMobRaptor.run goes through the
\* phases of BaseRaptorAlgorithm.run only, has after each phase the
\* bag_round_stop and the marked stops that BaseRaptorAlgorithm.run has for
\* the same origin stops, dep_secs and rounds, and leaves
\* visited_renting_stations and vehicle_transfers empty.
C30_DisabledSharedMobIsBaseRun ==
    (variant = "sm" /\ ~enable_sm /\ run_no >= 1) =>
        /\ pc \notin {"init_sm", "shared_mob"}
        /\ visited_renting_stations = <<>>
        /\ vehicle_transfers = <<>>
        /\ pc = "immediate" =>
              /\ bag_round_stop = InitialBags(from_stops, dep_secs, rounds)
              /\ marked_stops = from_stops
        /\ pc = "round_start" => RunState = BaseRound(k - 1).last
        /\ pc = "accumulate" =>
              /\ bag_round_stop = BaseRound(k).copied
              /\ marked_stops = BaseRound(k - 1).last.marked_stops
        /\ pc = "traverse" =>
              /\ bag_round_stop = BaseRound(k).copied
              /\ route_marked_stops = BaseRound(k).route_marked_stops
        /\ pc = "transfers" => RunState = BaseRound(k).mid
        /\ (pc = "round_start" /\ k >= 2) =>
              marked_transfer_stops = BaseRound(k - 1).marked_transfer_stops
        /\ pc \in {"done", "reconstructed"} =>
              /\ k = rounds + 1
              /\ RunState = BaseRound(rounds).last

\* a run without shared mobility that has finished three rounds, walked a
\* transfer to a renting station and still knows no renting station
C30_Witness ==
    /\ variant = "sm" /\ ~enable_sm
    /\ pc = "done"
    /\ rounds = MaxRounds
    /\ \E p \in RentingStations : bag_round_stop[rounds][p].labels # <<>>
    /\ bag_round_stop[rounds] # bag_round_stop[1]
    /\ visited_renting_stations = <<>>
    /\ RunState = BaseRound(rounds).last

====
